---- MODULE Spec2Model ----
(***************************************************************************)
(* Model of the multi-server MCP client of ttobot (package pkg/mcp): the   *)
(* registry of sessions (Client.servers / Client.serverIDs guarded by      *)
(* Client.serversLock), Connect, ConnectFromConfigs, Tools and             *)
(* MCPToolExecutor.Execute; of the ollama adapter (package pkg/ollama):    *)
(* SetTools, Chat, ExecuteToolCall and HandleToolCallsInResponse; of the   *)
(* schema conversion ConvertViaJSON; and of the two entry points that      *)
(* drive them.                                                             *)
(*                                                                         *)
(* Strings are sequences of tokens; the only token the code gives a        *)
(* meaning to is ":" (the separator of fmt.Sprintf("%s:%s", ...)).         *)
(***************************************************************************)
EXTENDS Naturals, Sequences, FiniteSets, TLC

\* ------------------------------------------------------------------ bounds

\* Connect calls made in one run (each spawns at most one session).
MaxConnects == 3

\* Connect calls that get a session in one run of concurrent callers, and in
\* one run of the adapter.
MaxConcConnects == 2

\* Largest reading of the wall clock (time.Now(), one-second resolution).
MaxTime == 1

\* Responses the endpoint sends for one chat request.
MaxFragments == 2

\* Descriptors in the list given to ConnectFromConfigs.
MaxConfigs == 2

\* CreateCommand calls of one run.
MaxBuilds == 3

\* ------------------------------------------------------------------ inputs

\* The goroutines that call into the client.
Procs == {"p1", "p2"}

NoProc == "none"

\* The launch descriptors handed to Connect.  The provider program behind a
\* descriptor fixes the id its session reports and the tools it enumerates.
Descriptors == {"dA", "dAx", "dE"}

\* The descriptors of the two providers of the adapter's runs.
AdapterDescriptors == {"sA", "sB"}

\* ss.ID() of a session spawned from descriptor d.
ProviderID(d) ==
  CASE d = "dA"  -> <<"A">>
    [] d = "dAx" -> <<"A", ":", "x">>
    [] d = "sA"  -> <<"A">>
    [] d = "sB"  -> <<"B">>
    [] d = "sBad" -> <<"C">>
    [] OTHER     -> <<>>

\* The native tool names a session spawned from d enumerates, in order.
ProviderTools(d) ==
  CASE d = "dA"  -> << <<"ping">>, <<"x", ":", "ping">> >>
    [] d = "dAx" -> << <<"ping">> >>
    [] d = "sA"  -> << <<"ping">> >>
    [] d = "sB"  -> << <<"ping">>, <<"status">> >>
    [] d = "sBad" -> << <<"ping">>, <<"bad">>, <<"status">> >>
    [] OTHER     -> << >>

\* The 8 hex characters uuid[:8] that crypto/rand can produce (two of them).
Hex8 == {"0a0a0a0a", "0b0b0b0b"}

\* ------------------------------------------------------------------ errors

OK                == "nil"
ErrConnect        == "failed to connect to MCP server"
ErrDuplicate      == "server with ID already exists"
ErrNoServers      == "no servers connected"
ErrListTools      == "failed to list tools"
ErrNoTools        == "no tools found"
ErrConvert        == "failed to convert input schema for tool"
ErrToolNotFound   == "tool not found"
ErrServerNotFound == "server not found"
ErrCallTool       == "failed to call tool"
ErrChat           == "chat request failed"
ErrBatch          == "failed to connect to server"
ErrNoExecutor     == "no executor available for tool"
NoResult          == "-"

\* ------------------------------------------------------------------- state

VARIABLES
  servers,      \* Client.servers: id -> session
  serverIDs,    \* Client.serverIDs: session -> id
  lockW,        \* serversLock: the goroutine holding the write lock
  lockR,        \* serversLock: the goroutines holding the read lock
  nSess,        \* sessions created so far; handles are 1..nSess
  sessDesc,     \* session -> the descriptor its process was spawned from
  sessState,    \* session -> "open" | "closed" (Close()) | "dead" (process gone)
  sessOutcome,  \* history: session -> "pending" | "ok" | "dup": how its Connect ended
  sessId,       \* history: session -> the serverID its Connect resolved (<<>> before)
  clock,        \* the last reading of time.Now()
  tools,        \* ollama Client.tools
  pc,           \* goroutine -> its position
  ss,           \* Connect: the session c.client.Connect returned
  rid,          \* Connect: serverID
  todo,         \* Tools: the servers the range loop has still to visit
  acc,          \* Tools: result
  listed,       \* the []tool.Tool the goroutine's last Tools call returned
  errTool,      \* Tools: the native tool name in the error it returned (<<>>: none)
  tgt,          \* ExecuteToolCall: targetTool
  srv,          \* MCPToolExecutor.Execute: server
  result,       \* the error (or OK) the goroutine's last call returned
  contacted,    \* history: sessions the goroutine's Tools call enumerated
  invoked,      \* history: <<session, native name, arguments>> of the last CallTool
  called,       \* ExecuteToolCall: toolCall.Function.Name
  cargs,        \* ExecuteToolCall: arguments, the mapping the call carries
  nCalls,       \* history: the CallTool invocations this Execute has made
  errArg,       \* history: the name the error of this ExecuteToolCall carries
  callRes,      \* history: <<r>>, r the CallToolResult the provider gave (<<>>: none)
  ret,          \* the string the goroutine's last Execute returned
  nOk,          \* history: Connect calls that returned nil
  reqTools,     \* Chat: the names of req.Tools (<<>>: the request has no tools)
  frags,        \* Chat: the responses the callback has been given
  respContent,  \* Chat: responseContent
  respCalls,    \* Chat: finalResponse.Message.ToolCalls
  arrived,      \* history: the responses the endpoint sent for this Chat, in order
  hPhase,       \* HandleToolCallsInResponse: "none" | "loop" | "wait" | "done"
  hCalls,       \* HandleToolCallsInResponse: response.Message.ToolCalls
  hIdx,         \* HandleToolCallsInResponse: the position of the range loop
  msgs,         \* HandleToolCallsInResponse: newMessages
  outcomes,     \* history: what each ExecuteToolCall of the loop returned
  bPhase,       \* ConnectFromConfigs: "none" | "loop" | "wait" | "done"
  bConfigs,     \* ConnectFromConfigs: configs
  bIdx,         \* ConnectFromConfigs: the position of the range loop
  bErr,         \* ConnectFromConfigs: the error it returned (or OK)
  attempted,    \* history: the configs ConnectFromConfig was called with, in order
  entry,        \* the entry point that runs: "client" | "ttobot" ("none": no main)
  mainPc,       \* main: its position
  question,     \* main: the index of the question asked
  didList,      \* history: main has called Tools
  didChat,      \* history: main has sent a chat request
  convPc,       \* the conversion: "off" | "provider" | "common" | "back"
  schema,       \* the conversion: mcpTool.InputSchema, as its JSON object
  common,       \* the conversion: commonTool.Function.Parameters
  back,         \* the conversion: the JSON object of the schema converted back
  environ,      \* os.Environ(): the environment of the parent process
  environ0,     \* history: the environment the parent process started with
  built,        \* history: the configs CreateCommand was called on, in order
  cmds          \* config -> the exec.Cmd CreateCommand last built for it

regVars  == <<servers, serverIDs>>
lockVars == <<lockW, lockR>>
sessVars == <<nSess, sessDesc, sessState, sessOutcome, sessId, clock>>
connLoc  == <<ss, rid>>
toolsLoc == <<todo, acc, listed, contacted, errTool>>
execLoc  == <<tgt, srv, invoked, called, cargs, nCalls, errArg, callRes, ret>>
histVars == <<nOk>>
chatLoc  == <<reqTools, frags, respContent, respCalls, arrived>>
handleLoc == <<hPhase, hCalls, hIdx, msgs, outcomes>>
batchLoc == <<bPhase, bConfigs, bIdx, bErr, attempted>>
mainLoc  == <<entry, mainPc, question, didList, didChat>>
convLoc  == <<convPc, schema, common, back>>
envLoc   == <<environ, environ0, built, cmds>>
callerVars == <<chatLoc, handleLoc, batchLoc, mainLoc, convLoc, envLoc>>

vars == <<servers, serverIDs, lockW, lockR, nSess, sessDesc, sessState,
          sessOutcome, sessId, clock, tools, pc, ss, rid, todo, acc, listed, errTool,
          tgt, srv,
          result, contacted, invoked, called, cargs, nCalls, errArg, callRes,
          ret, nOk, reqTools, frags,
          respContent, respCalls, arrived, hPhase, hCalls, hIdx, msgs, outcomes,
          bPhase, bConfigs, bIdx, bErr, attempted, entry, mainPc, question,
          didList, didChat, convPc, schema, common, back, environ, environ0, built, cmds>>

Sessions == 1..nSess

Range(f) == {f[x] : x \in DOMAIN f}

\* The zero value of a tool.Tool variable.
NoTool == [name |-> <<>>, serverID |-> <<>>, toolName |-> <<>>, bound |-> FALSE]

\* The argument mappings a tool call may carry, as their JSON text.
NoArguments == "{}"
Arguments == { NoArguments, "{\"path\":\".\"}" }

NoSession == 0

\* --------------------------------------------------------- pure functions

\* time.Now().Format("20060102-150405") at clock reading t.
Timestamp(t) == ToString(t)

\* generateServerID, with the clock reading t and the random suffix h it draws.
generateServerID(originalID, t, h) ==
  IF originalID # <<>> THEN originalID
  ELSE <<"mcp-server-", Timestamp(t), "-", h>>

\* fmt.Sprintf("%s:%s", serverID, mcpTool.Name)
DisplayName(serverID, nativeName) == serverID \o <<":">> \o nativeName

\* A tool named by its native name alone.
CommonTool_Unprefixed(serverID, nativeName) ==
  [name |-> nativeName, serverID |-> serverID, toolName |-> nativeName,
   bound |-> TRUE]

\* The tool.Tool that Tools builds for one native tool of one server.
CommonTool(serverID, nativeName) ==
  [name |-> DisplayName(serverID, nativeName),
   serverID |-> serverID,
   toolName |-> nativeName,
   bound |-> TRUE]

\* The tools of one server, in the order its iterator yields them.
ToolsOfServer(s) ==
  [i \in 1..Len(ProviderTools(sessDesc[s])) |->
      CommonTool(serverIDs[s], ProviderTools(sessDesc[s])[i])]

\* mcpTool.InputSchema of the native tool n of a session spawned from d, as
\* its JSON object.  The tool bad of sBad has a list of types, which the
\* provider's shape holds in Types and encodes under the key type as an array.
ToolSchema(d, n) ==
  IF d = "sBad" /\ n = <<"bad">>
  THEN [types |-> <<"string", "null">>]
  ELSE [type |-> "object", properties |-> [a |-> [type |-> "string"]]]

\* A conversion that never fails.
Convertible_Always(j) == TRUE

\* ConvertViaJSON into a ParameterSchema gives no error: json.Unmarshal fails
\* on an array for the string field Type.
Convertible(j) == "types" \notin DOMAIN j

\* The position, in the order the iterator yields them, of the first tool of
\* session s whose schema does not convert; 0 if all convert.
FirstBadTool(s) ==
  LET ts == ProviderTools(sessDesc[s])
      bad == { i \in 1..Len(ts) : ~Convertible(ToolSchema(sessDesc[s], ts[i])) }
  IN  IF bad = {} THEN 0
      ELSE CHOOSE i \in bad : \A j \in bad : i <= j

\* An error return that hands out what was collected.
ToolsOnError_KeepCollected(collected) == collected

\* return nil, fmt.Errorf(...): the tools Tools returns with an error.
ToolsOnError(collected) == <<>>

\* ExecuteToolCall's loop: the index of the first tool named n, 0 if none.
FindTool(ts, n) ==
  IF \E i \in 1..Len(ts) : ts[i].name = n
  THEN CHOOSE i \in 1..Len(ts) :
         /\ ts[i].name = n
         /\ \A j \in 1..(i - 1) : ts[j].name # n
  ELSE 0

\* The items of CallToolResult.Content: a *mcp.TextContent with its text, a
\* content of another type that marshals to JSON, and one whose MarshalJSON
\* fails.
TextContent(t) == [kind |-> "text", text |-> t]
OtherContent   == [kind |-> "other", text |-> <<"{image}">>]
BrokenContent  == [kind |-> "broken", text |-> <<>>]

\* A CallToolResult: Content (a nil slice when isNil), IsError.
CallToolResult(c, n, e) == [content |-> c, isNil |-> n, isError |-> e]

\* The results a provider's CallTool answers with.
CallResults ==
  { CallToolResult(<<>>, TRUE, FALSE),
    CallToolResult(<<>>, FALSE, FALSE),
    CallToolResult(<<TextContent(<<"a">>)>>, FALSE, FALSE),
    CallToolResult(<<TextContent(<<"a">>), TextContent(<<"b">>)>>, FALSE, FALSE),
    CallToolResult(<<OtherContent, TextContent(<<"a">>)>>, FALSE, FALSE),
    CallToolResult(<<BrokenContent, TextContent(<<"b">>)>>, FALSE, FALSE),
    CallToolResult(<<TextContent(<<"a">>)>>, FALSE, TRUE),
    CallToolResult(<<>>, TRUE, TRUE) }

\* The loop over result.Content: text is written as it is, another content
\* as its JSON, one that does not marshal is skipped.
RECURSIVE ContentString(_)
ContentString(c) ==
  IF c = <<>> THEN <<>>
  ELSE (IF c[1].kind = "broken" THEN <<>> ELSE c[1].text)
         \o ContentString(Tail(c))

\* The fixed string is returned for every result without a fragment.
ExecuteReturn_FixedWhenEmpty(r) ==
  IF r.content # <<>> THEN ContentString(r.content)
  ELSE <<"Tool executed successfully">>

\* What Execute returns for the result r of a CallTool that gave no error.
ExecuteReturn(r) ==
  IF ~r.isNil THEN ContentString(r.content)
  ELSE <<"Tool executed successfully">>

\* ------------------------------------------------------------ serversLock

\* A Lock that excludes nobody.
CanLock_NoExclusion == TRUE

\* sync.RWMutex.Lock returns only when nobody holds the lock.
CanLock == lockW = NoProc /\ lockR = {}

\* An RLock that does not wait for the writer.
CanRLock_IgnoresWriter == TRUE

\* sync.RWMutex.RLock returns only when no writer holds the lock.
CanRLock == lockW = NoProc

\* -------------------------------------------------------------------- Init

\* A new mcp.Client and a new ollama Client, nothing called yet.
InitClients ==
  /\ servers = <<>>
  /\ serverIDs = <<>>
  /\ lockW = NoProc
  /\ lockR = {}
  /\ nSess = 0
  /\ sessDesc = <<>>
  /\ sessState = <<>>
  /\ sessOutcome = <<>>
  /\ sessId = <<>>
  /\ clock = 0
  /\ tools = <<>>
  /\ pc = [p \in Procs |-> "idle"]
  /\ ss = [p \in Procs |-> NoSession]
  /\ rid = [p \in Procs |-> <<>>]
  /\ todo = [p \in Procs |-> {}]
  /\ acc = [p \in Procs |-> <<>>]
  /\ listed = [p \in Procs |-> <<>>]
  /\ errTool = [p \in Procs |-> <<>>]
  /\ tgt = [p \in Procs |-> NoTool]
  /\ srv = [p \in Procs |-> NoSession]
  /\ result = [p \in Procs |-> NoResult]
  /\ contacted = [p \in Procs |-> {}]
  /\ invoked = [p \in Procs |-> <<>>]
  /\ called = [p \in Procs |-> <<>>]
  /\ callRes = [p \in Procs |-> <<>>]
  /\ cargs = [p \in Procs |-> NoArguments]
  /\ nCalls = [p \in Procs |-> 0]
  /\ errArg = [p \in Procs |-> <<>>]
  /\ ret = [p \in Procs |-> <<>>]
  /\ nOk = 0
  /\ reqTools = [p \in Procs |-> <<>>]
  /\ frags = [p \in Procs |-> 0]
  /\ respContent = [p \in Procs |-> <<>>]
  /\ respCalls = [p \in Procs |-> <<>>]
  /\ arrived = [p \in Procs |-> <<>>]
  /\ hPhase = [p \in Procs |-> "none"]
  /\ hCalls = [p \in Procs |-> <<>>]
  /\ hIdx = [p \in Procs |-> 0]
  /\ msgs = [p \in Procs |-> <<>>]
  /\ outcomes = [p \in Procs |-> <<>>]
  /\ bPhase = [p \in Procs |-> "none"]
  /\ bConfigs = [p \in Procs |-> <<>>]
  /\ bIdx = [p \in Procs |-> 0]
  /\ bErr = [p \in Procs |-> NoResult]
  /\ attempted = [p \in Procs |-> <<>>]
  /\ question = 0
  /\ didList = FALSE
  /\ didChat = FALSE

\* ------------------------------------------------- the launch environment

\* A string of a config is a sequence of pieces: literal text, $NAME or
\* ${NAME}.
Lit(t)  == [kind |-> "lit", v |-> t]
Ref(n)  == [kind |-> "ref", v |-> n]
BRef(n) == [kind |-> "bref", v |-> n]

\* The server descriptors of a configuration file.  cA sets TOKEN for its
\* server; cB has no environment and passes $TOKEN as an argument; cC derives
\* DIR from ${TOKEN}; cD sets two variables, one from the other.
EnvConfigs == {"cA", "cB", "cC", "cD"}

\* c.Environment (a nil map is the empty function).
Environment(c) ==
  CASE c = "cA" -> ("TOKEN" :> <<Lit("a")>>)
    [] c = "cC" -> ("DIR" :> <<BRef("TOKEN"), Lit("/c")>>)
    [] c = "cD" -> ("X" :> <<Lit("1")>>) @@ ("Y" :> <<Ref("X")>>)
    [] OTHER    -> <<>>

\* c.Command
Command(c) == <<Lit(c)>>

\* c.Args
Args(c) ==
  CASE c = "cB" -> << <<Lit("--token="), Ref("TOKEN")>> >>
    [] c = "cC" -> << <<Ref("DIR")>> >>
    [] OTHER    -> <<>>

\* The environments the parent process may start with.
ParentEnvs == { <<>>, ("TOKEN" :> <<Lit("p")>>) }

\* os.Getenv: the value of the variable, empty when it is not set.
Getenv(env, n) == IF n \in DOMAIN env THEN env[n] ELSE <<>>

\* One ReplaceAllStringFunc pass: every piece of the kind is replaced by the
\* value of its variable.
RECURSIVE ReplaceAll(_, _, _)
ReplaceAll(value, env, kind) ==
  IF value = <<>> THEN <<>>
  ELSE (IF value[1].kind = kind THEN Getenv(env, value[1].v) ELSE <<value[1]>>)
         \o ReplaceAll(Tail(value), env, kind)

\* expandEnvironmentVariables: the ${NAME} pass, then the $NAME pass over its
\* result.
expandEnvironmentVariables(value, env) ==
  ReplaceAll(ReplaceAll(value, env, "bref"), env, "ref")

\* The orders in which a range over the map may yield its keys.
KeyOrders(m) ==
  { o \in [1..Cardinality(DOMAIN m) -> DOMAIN m] : Range(o) = DOMAIN m }

\* os.Setenv(key, value) on the environment of the process.
Setenv(env, key, value) == (key :> value) @@ env

\* applyEnvironment: each key, in the order the range yields them, is set in
\* the environment of the process to its value expanded at that moment.
RECURSIVE applyEnvironment(_, _, _)
applyEnvironment(env, c, order) ==
  IF order = <<>> THEN env
  ELSE applyEnvironment(
         Setenv(env, order[1],
                expandEnvironmentVariables(Environment(c)[order[1]], env)),
         c, Tail(order))

\* cmd.Env: os.Environ() followed by key=value for every key of the map, the
\* value expanded again; a later entry of a key wins.  With a nil map cmd.Env
\* is nil and the child, started at once by Connect, gets the environment of
\* the process.
CommandEnv(env, c) ==
  [k \in DOMAIN Environment(c) |->
      expandEnvironmentVariables(Environment(c)[k], env)] @@ env

\* No command built yet.
NoCmd == [command |-> <<>>, args |-> <<>>, env |-> <<>>]

\* No config is turned into a command.
NoEnv ==
  /\ environ = <<>>
  /\ environ0 = <<>>
  /\ built = <<>>
  /\ cmds = [c \in EnvConfigs |-> NoCmd]

\* No schema is being converted.
NoConversion ==
  /\ convPc = "off"
  /\ schema = <<>>
  /\ common = <<>>
  /\ back = <<>>

\* The clients used as a library: no entry point runs.
Init ==
  /\ InitClients
  /\ entry = "none"
  /\ mainPc = "off"
  /\ NoConversion
  /\ NoEnv

\* ---------------------------------------------------- the registry's maps

\* A lookup that never finds the id.
IsRegistered_Never(serverID) == FALSE

\* _, ok := c.servers[serverID]
IsRegistered(serverID) == serverID \in DOMAIN servers

\* The duplicate left open.
CloseSession_Leak(s) == sessState

\* ss.Close() of the duplicate: the sessions' states after it.
CloseSession(s) == [sessState EXCEPT ![s] = "closed"]

\* c.servers[serverID] = ss: the map after it.
StoreServer(serverID, s) == (serverID :> s) @@ servers

\* The id of the session is not recorded.
StoreID_Skip(s, serverID) == serverIDs

\* c.serverIDs[ss] = serverID
StoreID(s, serverID) == (s :> serverID) @@ serverIDs

\* The empty registry not recognised.
NoServers_Never == FALSE

\* len(c.servers) == 0
NoServers == Cardinality(DOMAIN servers) = 0

\* The empty result not recognised.
NoToolsFound_Never(r) == FALSE

\* len(result) == 0
NoToolsFound(r) == Len(r) = 0

\* ------------------------------------------------------ a call's own frame

\* The variables of a call live in its frame: when a goroutine starts its next
\* call, what its earlier calls left is gone.
ForgetConnect(p) ==
  /\ ss' = [ss EXCEPT ![p] = NoSession]
  /\ rid' = [rid EXCEPT ![p] = <<>>]

ForgetTools(p) ==
  /\ todo' = [todo EXCEPT ![p] = {}]
  /\ acc' = [acc EXCEPT ![p] = <<>>]
  /\ listed' = [listed EXCEPT ![p] = <<>>]
  /\ contacted' = [contacted EXCEPT ![p] = {}]
  /\ errTool' = [errTool EXCEPT ![p] = <<>>]

ForgetExec(p) ==
  /\ tgt' = [tgt EXCEPT ![p] = NoTool]
  /\ srv' = [srv EXCEPT ![p] = NoSession]
  /\ invoked' = [invoked EXCEPT ![p] = <<>>]
  /\ called' = [called EXCEPT ![p] = <<>>]
  /\ cargs' = [cargs EXCEPT ![p] = NoArguments]
  /\ nCalls' = [nCalls EXCEPT ![p] = 0]
  /\ errArg' = [errArg EXCEPT ![p] = <<>>]
  /\ callRes' = [callRes EXCEPT ![p] = <<>>]
  /\ ret' = [ret EXCEPT ![p] = <<>>]

ForgetChat(p) ==
  /\ reqTools' = [reqTools EXCEPT ![p] = <<>>]
  /\ frags' = [frags EXCEPT ![p] = 0]
  /\ respContent' = [respContent EXCEPT ![p] = <<>>]
  /\ respCalls' = [respCalls EXCEPT ![p] = <<>>]
  /\ arrived' = [arrived EXCEPT ![p] = <<>>]

ForgetHandle(p) ==
  /\ hPhase' = [hPhase EXCEPT ![p] = "none"]
  /\ hCalls' = [hCalls EXCEPT ![p] = <<>>]
  /\ hIdx' = [hIdx EXCEPT ![p] = 0]
  /\ msgs' = [msgs EXCEPT ![p] = <<>>]
  /\ outcomes' = [outcomes EXCEPT ![p] = <<>>]

\* ----------------------------------------------------------------- Connect

\* Connect / ConnectWithCommand up to c.client.Connect: the process is spawned
\* and the handshake made, or the call returns the connection error.
ConnectSpawn(p, d) ==
  /\ pc[p] = "idle"
  /\ nSess < MaxConnects
  /\ \/ /\ result' = [result EXCEPT ![p] = ErrConnect]
        /\ ss' = [ss EXCEPT ![p] = NoSession]
        /\ UNCHANGED <<sessVars, pc>>
     \/ /\ nSess' = nSess + 1
        /\ sessDesc' = Append(sessDesc, d)
        /\ sessState' = Append(sessState, "open")
        /\ sessOutcome' = Append(sessOutcome, "pending")
        /\ sessId' = Append(sessId, <<>>)
        /\ ss' = [ss EXCEPT ![p] = nSess + 1]
        /\ pc' = [pc EXCEPT ![p] = "conn_lock"]
        /\ result' = [result EXCEPT ![p] = NoResult]
        /\ UNCHANGED clock
  /\ rid' = [rid EXCEPT ![p] = <<>>]
  /\ ForgetTools(p)
  /\ ForgetExec(p)
  /\ UNCHANGED <<regVars, lockVars, tools, nOk>>

\* c.serversLock.Lock()
ConnectLock(p) ==
  /\ pc[p] = "conn_lock"
  /\ CanLock
  /\ lockW' = p
  /\ pc' = [pc EXCEPT ![p] = "conn_check"]
  /\ UNCHANGED <<regVars, lockR, sessVars, tools, connLoc, toolsLoc, execLoc,
                 result, histVars>>

\* serverID := generateServerID(ss.ID()); _, ok := c.servers[serverID]:
\* a duplicate closes the new session and returns (the deferred Unlock runs).
ConnectCheck(p) ==
  /\ pc[p] = "conn_check"
  /\ \E t \in clock..MaxTime, h \in Hex8 :
       LET serverID == generateServerID(ProviderID(sessDesc[ss[p]]), t, h) IN
       /\ clock' = IF ProviderID(sessDesc[ss[p]]) = <<>> THEN t ELSE clock
       /\ rid' = [rid EXCEPT ![p] = serverID]
       /\ sessId' = [sessId EXCEPT ![ss[p]] = serverID]
       /\ IF IsRegistered(serverID)
          THEN /\ sessState' = CloseSession(ss[p])
               /\ sessOutcome' = [sessOutcome EXCEPT ![ss[p]] = "dup"]
               /\ result' = [result EXCEPT ![p] = ErrDuplicate]
               /\ lockW' = NoProc
               /\ pc' = [pc EXCEPT ![p] = "idle"]
          ELSE /\ pc' = [pc EXCEPT ![p] = "conn_store"]
               /\ UNCHANGED <<sessState, sessOutcome, result, lockW>>
  /\ UNCHANGED <<regVars, lockR, nSess, sessDesc, tools, ss, toolsLoc, execLoc,
                 histVars>>

\* c.servers[serverID] = ss; c.serverIDs[ss] = serverID; return nil
\* (the deferred Unlock runs).
ConnectStore(p) ==
  /\ pc[p] = "conn_store"
  /\ servers' = StoreServer(rid[p], ss[p])
  /\ serverIDs' = StoreID(ss[p], rid[p])
  /\ sessOutcome' = [sessOutcome EXCEPT ![ss[p]] = "ok"]
  /\ result' = [result EXCEPT ![p] = OK]
  /\ nOk' = nOk + 1
  /\ lockW' = NoProc
  /\ pc' = [pc EXCEPT ![p] = "idle"]
  /\ UNCHANGED <<lockR, nSess, sessDesc, sessState, sessId, clock, tools,
                 connLoc, toolsLoc, execLoc>>

\* ------------------------------------------------------------------- Tools

\* c.serversLock.RLock() of Tools.
ToolsRLock(p) ==
  /\ pc[p] = "idle"
  /\ CanRLock
  /\ lockR' = lockR \cup {p}
  /\ pc' = [pc EXCEPT ![p] = "tools_len"]
  /\ result' = [result EXCEPT ![p] = NoResult]
  /\ ForgetConnect(p)
  /\ ForgetTools(p)
  /\ ForgetExec(p)
  /\ UNCHANGED <<regVars, lockW, sessVars, tools, histVars>>

\* if len(c.servers) == 0 { return nil, "no servers connected" }; otherwise the
\* range loop over c.servers starts.
ToolsLen(p) ==
  /\ pc[p] = "tools_len"
  /\ IF NoServers
     THEN /\ result' = [result EXCEPT ![p] = ErrNoServers]
          /\ lockR' = lockR \ {p}
          /\ pc' = [pc EXCEPT ![p] = "idle"]
          /\ UNCHANGED todo
     ELSE /\ todo' = [todo EXCEPT ![p] = Range(servers)]
          /\ pc' = [pc EXCEPT ![p] = "tools_enum"]
          /\ UNCHANGED <<result, lockR>>
  /\ UNCHANGED <<regVars, lockW, sessVars, tools, connLoc, acc, listed,
                 contacted, errTool, execLoc, histVars>>

\* One iteration of `for _, server := range c.servers` (in map order, which is
\* unspecified): server.Tools is drained.  An enumeration error returns
\* (nil, "failed to list tools"), a schema that does not convert returns
\* (nil, "failed to convert input schema for tool <native name>"); otherwise
\* the server's tools are appended.  A session whose process is gone cannot
\* enumerate.
ToolsEnum(p) ==
  /\ pc[p] = "tools_enum"
  /\ \E s \in todo[p] :
       /\ contacted' = [contacted EXCEPT ![p] = @ \cup {s}]
       /\ \/ /\ sessState[s] = "open"
             /\ FirstBadTool(s) = 0
             /\ acc' = [acc EXCEPT ![p] = @ \o ToolsOfServer(s)]
             /\ todo' = [todo EXCEPT ![p] = @ \ {s}]
             /\ UNCHANGED <<result, lockR, pc, listed, errTool>>
          \/ /\ sessState[s] = "open"
             /\ FirstBadTool(s) # 0
             /\ result' = [result EXCEPT ![p] = ErrConvert]
             /\ errTool' = [errTool EXCEPT ![p] =
                              ProviderTools(sessDesc[s])[FirstBadTool(s)]]
             /\ listed' = [listed EXCEPT ![p] = ToolsOnError(acc[p])]
             /\ acc' = [acc EXCEPT ![p] = <<>>]
             /\ todo' = [todo EXCEPT ![p] = {}]
             /\ lockR' = lockR \ {p}
             /\ pc' = [pc EXCEPT ![p] = "idle"]
          \/ /\ result' = [result EXCEPT ![p] = ErrListTools]
             /\ listed' = [listed EXCEPT ![p] = ToolsOnError(acc[p])]
             /\ acc' = [acc EXCEPT ![p] = <<>>]
             /\ todo' = [todo EXCEPT ![p] = {}]
             /\ lockR' = lockR \ {p}
             /\ pc' = [pc EXCEPT ![p] = "idle"]
             /\ UNCHANGED errTool
  /\ UNCHANGED <<regVars, lockW, sessVars, tools, connLoc, execLoc,
                 histVars>>

\* After the loop: if len(result) == 0 { return nil, "no tools found" };
\* return result, nil (the deferred RUnlock runs).
ToolsReturn(p) ==
  /\ pc[p] = "tools_enum"
  /\ todo[p] = {}
  /\ IF NoToolsFound(acc[p])
     THEN /\ result' = [result EXCEPT ![p] = ErrNoTools]
          /\ UNCHANGED listed
     ELSE /\ result' = [result EXCEPT ![p] = OK]
          /\ listed' = [listed EXCEPT ![p] = acc[p]]
  /\ acc' = [acc EXCEPT ![p] = <<>>]
  /\ lockR' = lockR \ {p}
  /\ pc' = [pc EXCEPT ![p] = "idle"]
  /\ UNCHANGED <<regVars, lockW, sessVars, tools, connLoc, todo, contacted,
                 errTool, execLoc, histVars>>

\* ----------------------------------------------------------- ollama adapter

\* SetTools with the list a Tools call returned.
SetTools(p) ==
  /\ pc[p] = "idle"
  /\ result[p] = OK
  /\ listed[p] # <<>>
  /\ tools # listed[p]
  /\ tools' = listed[p]
  /\ UNCHANGED <<regVars, lockVars, sessVars, pc, connLoc, toolsLoc, execLoc,
                 result, histVars>>

\* Names no Tools call of these providers builds: one without the separator,
\* one whose part before the separator is the id of no provider.
OtherNames == { <<"ping">>, <<"Z", ":", "ping">> }

\* The names a tool call may carry: those of the tools the adapter holds, and
\* names the model made up.
CallNames == {tools[i].name : i \in 1..Len(tools)} \cup OtherNames

\* A tool the caller built itself and gave no Executor.
LocalTool ==
  [name |-> <<"local">>, serverID |-> <<>>, toolName |-> <<>>, bound |-> FALSE]

\* SetTools with a Tools list to which the caller added a tool of its own.
SetToolsLocal(p) ==
  /\ pc[p] = "idle"
  /\ result[p] = OK
  /\ listed[p] # <<>>
  /\ tools # Append(listed[p], LocalTool)
  /\ tools' = Append(listed[p], LocalTool)
  /\ UNCHANGED <<regVars, lockVars, sessVars, pc, connLoc, toolsLoc, execLoc,
                 result, histVars>>

\* Every tool is taken to have an executor.
HasExecutor_Always(t) == TRUE

\* t.Executor != nil of Tool.Execute.
HasExecutor(t) == t.bound

\* The provider is called with the name the model used.
CallName_Display(t) == t.name

\* Name: e.toolName of the CallToolParams.
CallName(t) == t.toolName

\* The provider is called with no arguments.
CallArguments_None(a) == NoArguments

\* Arguments: arguments of the CallToolParams.
CallArguments(a) == a

\* ExecuteToolCall up to the executor's lock: the first tool of c.tools with
\* the called name is taken, none gives "tool not found"; Tool.Execute returns
\* "no executor" for a tool without one, else MCPToolExecutor.Execute starts.
ExecFind(p, n, a) ==
  /\ pc[p] = "idle"
  /\ IF FindTool(tools, n) = 0
     THEN /\ result' = [result EXCEPT ![p] = ErrToolNotFound]
          /\ tgt' = [tgt EXCEPT ![p] = NoTool]
          /\ errArg' = [errArg EXCEPT ![p] = n]
          /\ UNCHANGED pc
     ELSE /\ tgt' = [tgt EXCEPT ![p] = tools[FindTool(tools, n)]]
          /\ IF HasExecutor(tools[FindTool(tools, n)])
             THEN /\ result' = [result EXCEPT ![p] = NoResult]
                  /\ pc' = [pc EXCEPT ![p] = "exec_rlock"]
                  /\ errArg' = [errArg EXCEPT ![p] = <<>>]
             ELSE /\ result' = [result EXCEPT ![p] = ErrNoExecutor]
                  /\ errArg' = [errArg EXCEPT ![p] = tools[FindTool(tools, n)].name]
                  /\ UNCHANGED pc
  /\ called' = [called EXCEPT ![p] = n]
  /\ cargs' = [cargs EXCEPT ![p] = a]
  /\ nCalls' = [nCalls EXCEPT ![p] = 0]
  /\ srv' = [srv EXCEPT ![p] = NoSession]
  /\ invoked' = [invoked EXCEPT ![p] = <<>>]
  /\ callRes' = [callRes EXCEPT ![p] = <<>>]
  /\ ret' = [ret EXCEPT ![p] = <<>>]
  /\ ForgetConnect(p)
  /\ ForgetTools(p)
  /\ UNCHANGED <<regVars, lockVars, sessVars, tools, histVars>>

\* e.client.serversLock.RLock() of MCPToolExecutor.Execute.
ExecRLock(p) ==
  /\ pc[p] = "exec_rlock"
  /\ CanRLock
  /\ lockR' = lockR \cup {p}
  /\ pc' = [pc EXCEPT ![p] = "exec_lookup"]
  /\ UNCHANGED <<regVars, lockW, sessVars, tools, connLoc, toolsLoc, execLoc,
                 result, histVars>>

\* server, exists := e.client.servers[e.serverID]; RUnlock();
\* if !exists { return "", "server not found" }
ExecLookup(p) ==
  /\ pc[p] = "exec_lookup"
  /\ lockR' = lockR \ {p}
  /\ IF tgt[p].serverID \in DOMAIN servers
     THEN /\ srv' = [srv EXCEPT ![p] = servers[tgt[p].serverID]]
          /\ pc' = [pc EXCEPT ![p] = "exec_call"]
          /\ UNCHANGED <<result, errArg>>
     ELSE /\ result' = [result EXCEPT ![p] = ErrServerNotFound]
          /\ errArg' = [errArg EXCEPT ![p] = tgt[p].serverID]
          /\ pc' = [pc EXCEPT ![p] = "idle"]
          /\ UNCHANGED srv
  /\ UNCHANGED <<regVars, lockW, sessVars, tools, connLoc, toolsLoc, tgt,
                 invoked, called, cargs, nCalls, callRes, ret, histVars>>

\* result, err := server.CallTool(ctx, {Name: e.toolName, Arguments:
\* arguments}): the call is made once on the session looked up; a session
\* whose process is gone fails it and the error, which carries e.toolName, is
\* returned.  With no error the content of the result is returned as one
\* string, and result.IsError is not read.
ExecCall(p) ==
  /\ pc[p] = "exec_call"
  /\ invoked' = [invoked EXCEPT ![p] =
                   <<srv[p], CallName(tgt[p]), CallArguments(cargs[p])>>]
  /\ nCalls' = [nCalls EXCEPT ![p] = @ + 1]
  /\ \/ /\ sessState[srv[p]] = "open"
        /\ \E r \in CallResults :
              /\ callRes' = [callRes EXCEPT ![p] = <<r>>]
              /\ ret' = [ret EXCEPT ![p] = ExecuteReturn(r)]
        /\ result' = [result EXCEPT ![p] = OK]
        /\ UNCHANGED errArg
     \/ /\ result' = [result EXCEPT ![p] = ErrCallTool]
        /\ errArg' = [errArg EXCEPT ![p] = tgt[p].toolName]
        /\ UNCHANGED <<callRes, ret>>
  /\ pc' = [pc EXCEPT ![p] = "idle"]
  /\ UNCHANGED <<regVars, lockVars, sessVars, tools, connLoc, toolsLoc, tgt,
                 srv, called, cargs, histVars>>

\* ------------------------------------------------------ ConnectFromConfigs

\* A loop that goes on to the next config after a failed Connect.
BatchStops_Never(err) == FALSE

\* if err := c.ConnectFromConfig(ctx, config); err != nil { return ... }
BatchStops(err) == err # OK

\* ConnectFromConfigs is called with the list cfgs.
BatchStart(p, cfgs) ==
  /\ pc[p] = "idle"
  /\ bPhase[p] \in {"none", "done"}
  /\ bPhase' = [bPhase EXCEPT ![p] = "loop"]
  /\ bConfigs' = [bConfigs EXCEPT ![p] = cfgs]
  /\ bIdx' = [bIdx EXCEPT ![p] = 1]
  /\ bErr' = [bErr EXCEPT ![p] = NoResult]
  /\ attempted' = [attempted EXCEPT ![p] = <<>>]
  /\ result' = [result EXCEPT ![p] = NoResult]
  /\ ForgetConnect(p)
  /\ ForgetTools(p)
  /\ ForgetExec(p)
  /\ ForgetChat(p)
  /\ ForgetHandle(p)
  /\ UNCHANGED <<regVars, lockVars, sessVars, tools, pc, histVars>>

\* c.ConnectFromConfig(ctx, config) for the config the loop is at: the command
\* is created and Connect entered.
BatchConnect(p) ==
  /\ bPhase[p] = "loop"
  /\ bIdx[p] <= Len(bConfigs[p])
  /\ ConnectSpawn(p, bConfigs[p][bIdx[p]])
  /\ attempted' = [attempted EXCEPT ![p] = Append(@, bConfigs[p][bIdx[p]])]
  /\ bPhase' = [bPhase EXCEPT ![p] = "wait"]
  /\ UNCHANGED <<bConfigs, bIdx, bErr, chatLoc, handleLoc>>

\* The connections made before the failing config are taken back.
ServersOnBatchError_Rollback(registered) == <<>>

\* What c.servers holds when ConnectFromConfigs returns the error of a config:
\* the return touches nothing.
ServersOnBatchError(registered) == registered

\* ConnectFromConfig has returned: its error ends ConnectFromConfigs, wrapped
\* with the name of the config; with none the loop moves on.
BatchCheck(p) ==
  /\ bPhase[p] = "wait"
  /\ pc[p] = "idle"
  /\ IF BatchStops(result[p])
     THEN /\ bPhase' = [bPhase EXCEPT ![p] = "done"]
          /\ bErr' = [bErr EXCEPT ![p] = ErrBatch]
          /\ servers' = ServersOnBatchError(servers)
          /\ UNCHANGED bIdx
     ELSE /\ bPhase' = [bPhase EXCEPT ![p] = "loop"]
          /\ bIdx' = [bIdx EXCEPT ![p] = @ + 1]
          /\ UNCHANGED <<bErr, servers>>
  /\ UNCHANGED <<serverIDs, lockVars, sessVars, tools, pc, connLoc, toolsLoc,
                 execLoc, result, histVars, chatLoc, handleLoc, bConfigs,
                 attempted>>

\* The loop is over every config: return nil.
BatchReturn(p) ==
  /\ bPhase[p] = "loop"
  /\ bIdx[p] > Len(bConfigs[p])
  /\ bPhase' = [bPhase EXCEPT ![p] = "done"]
  /\ bErr' = [bErr EXCEPT ![p] = OK]
  /\ UNCHANGED <<regVars, lockVars, sessVars, tools, pc, connLoc, toolsLoc,
                 execLoc, result, histVars, chatLoc, handleLoc, bConfigs, bIdx,
                 attempted>>

\* -------------------------------------------------------------------- Chat

\* len(c.tools) > 0
HasTools(ts) == Len(ts) > 0

\* A conversion that gives no tool.
convertToOllamaTools_None(ts) == <<>>

\* convertToOllamaTools: one api.Tool per tool of c.tools, in order, named
\* t.Function.Name.
convertToOllamaTools(ts) == [i \in 1..Len(ts) |-> ts[i].name]

\* The request is built and sent: req.Tools is set only if c.tools is not
\* empty.
ChatSend(p) ==
  /\ pc[p] = "idle"
  /\ reqTools' = [reqTools EXCEPT ![p] =
                    IF HasTools(tools) THEN convertToOllamaTools(tools)
                    ELSE <<>>]
  /\ frags' = [frags EXCEPT ![p] = 0]
  /\ respContent' = [respContent EXCEPT ![p] = <<>>]
  /\ respCalls' = [respCalls EXCEPT ![p] = <<>>]
  /\ arrived' = [arrived EXCEPT ![p] = <<>>]
  /\ result' = [result EXCEPT ![p] = NoResult]
  /\ pc' = [pc EXCEPT ![p] = "chat_recv"]
  /\ ForgetConnect(p)
  /\ ForgetTools(p)
  /\ ForgetExec(p)
  /\ ForgetHandle(p)
  /\ UNCHANGED <<regVars, lockVars, sessVars, tools, histVars, batchLoc>>

\* The content one response of the endpoint carries.
FragmentContents == { <<>>, <<"h">> }

\* The tool calls one response of the endpoint carries.
FragmentCalls == { <<>> } \cup { <<n>> : n \in CallNames }

\* The callback kept only the content of the response.
KeepCalls_Never(old, new) == <<>>

\* finalResponse = resp: the tool calls of the response replace those held.
KeepCalls(old, new) == new

\* The callback of c.client.Chat, given the response with content c and tool
\* calls tc.
ChatFragment(p, c, tc) ==
  /\ pc[p] = "chat_recv"
  /\ frags[p] < MaxFragments
  /\ frags' = [frags EXCEPT ![p] = @ + 1]
  /\ respCalls' = [respCalls EXCEPT ![p] = KeepCalls(@, tc)]
  /\ respContent' = [respContent EXCEPT ![p] = IF c # <<>> THEN @ \o c ELSE @]
  /\ arrived' = [arrived EXCEPT ![p] = Append(@, [content |-> c, calls |-> tc])]
  /\ UNCHANGED <<regVars, lockVars, sessVars, tools, pc, connLoc, toolsLoc,
                 execLoc, result, histVars, reqTools, handleLoc, batchLoc>>

\* c.client.Chat returns: with an error Chat returns (nil, error), else the
\* last response with the content collected.
ChatReturn(p) ==
  /\ pc[p] = "chat_recv"
  /\ \/ /\ result' = [result EXCEPT ![p] = ErrChat]
        /\ respContent' = [respContent EXCEPT ![p] = <<>>]
        /\ respCalls' = [respCalls EXCEPT ![p] = <<>>]
     \/ /\ result' = [result EXCEPT ![p] = OK]
        /\ UNCHANGED <<respContent, respCalls>>
  /\ pc' = [pc EXCEPT ![p] = "idle"]
  /\ UNCHANGED <<regVars, lockVars, sessVars, tools, connLoc, toolsLoc,
                 execLoc, histVars, reqTools, frags, arrived, handleLoc,
                 batchLoc>>

\* ----------------------------------------------- HandleToolCallsInResponse

\* The error ExecuteToolCall returns for the error err of its steps: the
\* executor's error is wrapped.
ExecuteToolCallError(err) ==
  IF err = ErrToolNotFound THEN <<err>>
  ELSE <<"tool execution failed: ">> \o <<err>>

\* The api.Message appended for one tool call: the result, or
\* fmt.Sprintf("Tool execution failed: %v", err).
ToolMessage(err, r) ==
  [role |-> "tool",
   content |-> IF err # OK
               THEN <<"Tool execution failed: ">> \o ExecuteToolCallError(err)
               ELSE r]

\* The message put in front of those collected.
appendMessage_Front(ms, m) == <<m>> \o ms

\* newMessages = append(newMessages, toolMessage)
appendMessage(ms, m) == Append(ms, m)

\* A loop that stops at the first failed call.
LoopGoesOn_StopOnError(err, i, n) == err = OK /\ i <= n

\* for _, toolCall := range response.Message.ToolCalls: after a call that
\* returned err the loop goes on while calls are left.
LoopGoesOn(err, i, n) == i <= n

\* HandleToolCallsInResponse is called with the tool calls tc: none gives
\* (nil, nil) at once.
HandleStart(p, tc) ==
  /\ pc[p] = "idle"
  /\ hPhase[p] \in {"none", "done"}
  /\ hCalls' = [hCalls EXCEPT ![p] = tc]
  /\ msgs' = [msgs EXCEPT ![p] = <<>>]
  /\ outcomes' = [outcomes EXCEPT ![p] = <<>>]
  /\ IF Len(tc) = 0
     THEN /\ hPhase' = [hPhase EXCEPT ![p] = "done"]
          /\ hIdx' = [hIdx EXCEPT ![p] = 0]
          /\ result' = [result EXCEPT ![p] = OK]
     ELSE /\ hPhase' = [hPhase EXCEPT ![p] = "loop"]
          /\ hIdx' = [hIdx EXCEPT ![p] = 1]
          /\ result' = [result EXCEPT ![p] = NoResult]
  /\ ForgetConnect(p)
  /\ ForgetTools(p)
  /\ ForgetExec(p)
  /\ ForgetChat(p)
  /\ UNCHANGED <<regVars, lockVars, sessVars, tools, pc, histVars, batchLoc>>

\* result, err := c.ExecuteToolCall(ctx, toolCall) is entered for the call
\* the loop is at.
HandleExec(p) ==
  /\ hPhase[p] = "loop"
  /\ hIdx[p] <= Len(hCalls[p])
  /\ \E a \in Arguments : ExecFind(p, hCalls[p][hIdx[p]], a)
  /\ hPhase' = [hPhase EXCEPT ![p] = "wait"]
  /\ UNCHANGED <<hCalls, hIdx, msgs, outcomes, chatLoc, batchLoc>>

\* ExecuteToolCall has returned: its result, or the failure text, is appended
\* as a message and the loop moves on.
HandleCollect(p) ==
  /\ hPhase[p] = "wait"
  /\ pc[p] = "idle"
  /\ msgs' = [msgs EXCEPT ![p] =
                appendMessage(@, ToolMessage(result[p], ret[p]))]
  /\ outcomes' = [outcomes EXCEPT ![p] =
                    Append(@, [name |-> called[p], err |-> result[p],
                               ret |-> ret[p], invoked |-> invoked[p]])]
  /\ hIdx' = [hIdx EXCEPT ![p] = @ + 1]
  /\ IF LoopGoesOn(result[p], hIdx[p] + 1, Len(hCalls[p]))
     THEN /\ hPhase' = [hPhase EXCEPT ![p] = "loop"]
          /\ UNCHANGED result
     ELSE /\ hPhase' = [hPhase EXCEPT ![p] = "done"]
          /\ result' = [result EXCEPT ![p] = OK]
  /\ UNCHANGED <<regVars, lockVars, sessVars, tools, pc, connLoc, toolsLoc,
                 execLoc, histVars, chatLoc, hCalls, batchLoc>>

\* The goroutine is inside HandleToolCallsInResponse.
InHandle(p) == hPhase[p] \in {"loop", "wait"}

\* ---------------------------------------------------------- ConvertViaJSON

\* A JSON object is a function from its keys to their values; a value of Go
\* type any (or a slice) that is nil is the empty sequence, one that is set
\* is the sequence of its one value (or of the slice's elements).

\* The object f with its keys in K only.
Restrict(f, K) == [k \in K |-> f[k]]

\* The value of key k of the object j, d if j has no such key.
Get(j, k, d) == IF k \in DOMAIN j THEN j[k] ELSE d

\* The schema of the items of an array, with properties of its own.
ItemSchema ==
  [type |-> "object", properties |-> [n |-> [type |-> "string"]]]

\* A property with every keyword: an object with an enum, items, and nested
\* properties of which one is required.
FullProperty ==
  [type |-> "object", description |-> "d", enum |-> <<"x", "y">>,
   items |-> ItemSchema, properties |-> [q |-> [type |-> "string"]],
   required |-> <<"q">>]

\* The property schemas a provider sends: the type with any of the other
\* keywords.
PropertySchemas ==
  { Restrict(FullProperty, K \cup {"type"}) :
      K \in SUBSET {"description", "enum", "items", "properties", "required"} }

\* The input schemas a provider sends for a tool: an object type with any of
\* required, properties (one property, a), items and $defs (key "defs" here).
ProviderSchemas ==
  { Restrict([type |-> "object", required |-> <<"a">>,
              properties |-> [a |-> ps], items |-> ItemSchema,
              defs |-> [T |-> [type |-> "string"]]],
             K \cup {"type"}) :
      K \in SUBSET {"required", "properties", "items", "defs"},
      ps \in PropertySchemas }

\* A PropertyDefinition decoded without its enum.
UnmarshalProperty_NoEnum(j) ==
  [Type |-> Get(j, "type", ""),
   Description |-> Get(j, "description", ""),
   Items |-> IF "items" \in DOMAIN j THEN <<j["items"]>> ELSE <<>>,
   Enum |-> <<>>]

\* json.Unmarshal of the object j into a PropertyDefinition: the four fields
\* the struct declares are read, every other key of j is ignored.
UnmarshalProperty(j) ==
  [Type |-> Get(j, "type", ""),
   Description |-> Get(j, "description", ""),
   Items |-> IF "items" \in DOMAIN j THEN <<j["items"]>> ELSE <<>>,
   Enum |-> Get(j, "enum", <<>>)]

\* json.Marshal of a PropertyDefinition: type always, the others unless empty
\* (omitempty).
MarshalProperty(pd) ==
  LET K == {"type"}
             \cup (IF pd.Description # "" THEN {"description"} ELSE {})
             \cup (IF pd.Items # <<>> THEN {"items"} ELSE {})
             \cup (IF pd.Enum # <<>> THEN {"enum"} ELSE {})
  IN  [k \in K |->
         CASE k = "type" -> pd.Type
           [] k = "description" -> pd.Description
           [] k = "items" -> pd.Items[1]
           [] OTHER -> pd.Enum]

\* The ParameterSchema Tools starts from: Type "object", no property, nothing
\* required.
NewParameters ==
  [Type |-> "object", Required |-> <<>>, Properties |-> <<>>,
   Defs |-> <<>>, Items |-> <<>>]

\* json.Unmarshal of the object j into the ParameterSchema ps: a field is set
\* when j has its key, every other key of j is ignored.
UnmarshalSchema(j, ps) ==
  [Type |-> Get(j, "type", ps.Type),
   Required |-> Get(j, "required", ps.Required),
   Properties |->
     IF "properties" \in DOMAIN j
     THEN [n \in DOMAIN j["properties"] \cup DOMAIN ps.Properties |->
             IF n \in DOMAIN j["properties"]
             THEN UnmarshalProperty(j["properties"][n])
             ELSE ps.Properties[n]]
     ELSE ps.Properties,
   Defs |-> IF "defs" \in DOMAIN j THEN <<j["defs"]>> ELSE ps.Defs,
   Items |-> IF "items" \in DOMAIN j THEN <<j["items"]>> ELSE ps.Items]

\* json.Marshal of a ParameterSchema: type always, the others unless empty
\* (omitempty).
MarshalSchema(ps) ==
  LET K == {"type"}
             \cup (IF ps.Required # <<>> THEN {"required"} ELSE {})
             \cup (IF DOMAIN ps.Properties # {} THEN {"properties"} ELSE {})
             \cup (IF ps.Defs # <<>> THEN {"defs"} ELSE {})
             \cup (IF ps.Items # <<>> THEN {"items"} ELSE {})
  IN  [k \in K |->
         CASE k = "type" -> ps.Type
           [] k = "required" -> ps.Required
           [] k = "properties" ->
                [n \in DOMAIN ps.Properties |->
                   MarshalProperty(ps.Properties[n])]
           [] k = "defs" -> ps.Defs[1]
           [] OTHER -> ps.Items[1]]

\* ConvertViaJSON(mcpTool.InputSchema, &commonTool.Function.Parameters)
ConvertToCommon ==
  /\ convPc = "provider"
  /\ common' = UnmarshalSchema(schema, NewParameters)
  /\ convPc' = "common"
  /\ UNCHANGED <<schema, back>>
  /\ UNCHANGED <<regVars, lockVars, sessVars, tools, pc, connLoc, toolsLoc,
                 execLoc, result, histVars, chatLoc, handleLoc, batchLoc,
                 mainLoc, envLoc>>

\* ConvertViaJSON of the common schema into the provider's shape again, whose
\* type declares every keyword and so is its JSON object.
ConvertBack ==
  /\ convPc = "common"
  /\ back' = MarshalSchema(common)
  /\ convPc' = "back"
  /\ UNCHANGED <<schema, common>>
  /\ UNCHANGED <<regVars, lockVars, sessVars, tools, pc, connLoc, toolsLoc,
                 execLoc, result, histVars, chatLoc, handleLoc, batchLoc,
                 mainLoc, envLoc>>

\* -------------------------------------------------------------------- main

\* The two programs with a main that drives the clients: the example client
\* and the ttobot command.
Entries == {"client", "ttobot"}

\* The goroutine main runs on.
MainProc == "p1"

\* An entry point that goes on after a failed ConnectFromConfigs.
FatalOnConnectError_Never(e) == FALSE

\* What main does with the error of ConnectFromConfigs: the example client
\* logs it and continues, ttobot ends with log.Fatalf.
FatalOnConnectError(e) == e = "ttobot"

\* What main does with the error of Chat: the example client logs it and
\* continues with the next question, ttobot ends with log.Fatalf.
FatalOnChatError(e) == e = "ttobot"

\* The questions main asks: the four testQuestions of the example client, the
\* one query of ttobot.
Questions(e) == IF e = "client" THEN 4 ELSE 1

\* What main does itself leaves the clients as they are.
MainOnly ==
  UNCHANGED <<regVars, lockVars, sessVars, tools, pc, connLoc, toolsLoc,
              execLoc, result, histVars, chatLoc, handleLoc, batchLoc>>

\* The arguments are checked: ttobot without a question prints its usage and
\* exits.
MainStart ==
  /\ mainPc = "start"
  /\ \/ mainPc' = "connect"
     \/ entry = "ttobot" /\ mainPc' = "exit"
  /\ UNCHANGED <<entry, question, didList, didChat>>
  /\ MainOnly

\* client.ConnectFromConfigs(ctx, configs) with the configs loaded.
MainConnect(cfgs) ==
  /\ mainPc = "connect"
  /\ BatchStart(MainProc, cfgs)
  /\ mainPc' = "connecting"
  /\ UNCHANGED <<entry, question, didList, didChat>>

\* ConnectFromConfigs has returned.
MainConnected ==
  /\ mainPc = "connecting"
  /\ bPhase[MainProc] = "done"
  /\ mainPc' = IF bErr[MainProc] # OK /\ FatalOnConnectError(entry)
               THEN "exit" ELSE "tools"
  /\ UNCHANGED <<entry, question, didList, didChat>>
  /\ MainOnly

\* tools, err := client.Tools(ctx)
MainTools ==
  /\ mainPc = "tools"
  /\ ToolsRLock(MainProc)
  /\ mainPc' = "listing"
  /\ didList' = TRUE
  /\ UNCHANGED <<entry, question, didChat, chatLoc, handleLoc, batchLoc>>

\* Tools has returned: its error ends both programs.
MainListed ==
  /\ mainPc = "listing"
  /\ pc[MainProc] = "idle"
  /\ mainPc' = IF result[MainProc] # OK THEN "exit" ELSE "newclient"
  /\ UNCHANGED <<entry, question, didList, didChat>>
  /\ MainOnly

\* ollama.NewClient: a URL that does not parse ends both programs.
MainNewClient ==
  /\ mainPc = "newclient"
  /\ \/ mainPc' = "settools"
     \/ mainPc' = "exit"
  /\ UNCHANGED <<entry, question, didList, didChat>>
  /\ MainOnly

\* ollamaClient.SetTools(tools)
MainSetTools ==
  /\ mainPc = "settools"
  /\ SetTools(MainProc)
  /\ mainPc' = "ask"
  /\ question' = 1
  /\ UNCHANGED <<entry, didList, didChat, chatLoc, handleLoc, batchLoc>>

\* ollamaClient.Chat(ctx, messages) for the question main is at.
MainAsk ==
  /\ mainPc = "ask"
  /\ question <= Questions(entry)
  /\ ChatSend(MainProc)
  /\ mainPc' = "chatting"
  /\ didChat' = TRUE
  /\ UNCHANGED <<entry, question, didList>>

\* Chat has returned: an error ends ttobot and makes the example client go to
\* its next question; a response with tool calls is handled.
MainAnswered ==
  /\ mainPc = "chatting"
  /\ pc[MainProc] = "idle"
  /\ IF result[MainProc] # OK
     THEN IF FatalOnChatError(entry)
          THEN mainPc' = "exit" /\ UNCHANGED question
          ELSE mainPc' = "ask" /\ question' = question + 1
     ELSE IF Len(respCalls[MainProc]) > 0
          THEN mainPc' = "handle" /\ UNCHANGED question
          ELSE mainPc' = "ask" /\ question' = question + 1
  /\ UNCHANGED <<entry, didList, didChat>>
  /\ MainOnly

\* ollamaClient.HandleToolCallsInResponse(ctx, response)
MainHandle ==
  /\ mainPc = "handle"
  /\ HandleStart(MainProc, respCalls[MainProc])
  /\ mainPc' = "handling"
  /\ UNCHANGED <<entry, question, didList, didChat>>

\* HandleToolCallsInResponse has returned: the results are printed.
MainHandled ==
  /\ mainPc = "handling"
  /\ hPhase[MainProc] = "done"
  /\ mainPc' = "ask"
  /\ question' = question + 1
  /\ UNCHANGED <<entry, didList, didChat>>
  /\ MainOnly

\* Every question is asked: main returns.
MainDone ==
  /\ mainPc = "ask"
  /\ question > Questions(entry)
  /\ mainPc' = "done"
  /\ UNCHANGED <<entry, question, didList, didChat>>
  /\ MainOnly

\* ------------------------------------------------------------- environment

\* The provider process of a session exits (or is killed with its context):
\* the session is disconnected.  No code of the client runs.
Disconnect(s) ==
  /\ sessState[s] = "open"
  /\ sessState' = [sessState EXCEPT ![s] = "dead"]
  /\ UNCHANGED <<regVars, lockVars, nSess, sessDesc, sessOutcome, sessId, clock,
                 tools, pc, connLoc, toolsLoc, execLoc, result, histVars>>

\* ----------------------------------------------------------- specification

\* One caller: the entry points make every call from the main goroutine.
Main == {"p1"}

Next ==
  \/ \E p \in Main, d \in Descriptors : ConnectSpawn(p, d)
        /\ UNCHANGED callerVars
  \/ \E p \in Main : ConnectLock(p)
        /\ UNCHANGED callerVars
  \/ \E p \in Main : ConnectCheck(p)
        /\ UNCHANGED callerVars
  \/ \E p \in Main : ConnectStore(p)
        /\ UNCHANGED callerVars
  \/ \E p \in Main : ToolsRLock(p)
        /\ UNCHANGED callerVars
  \/ \E p \in Main : ToolsLen(p)
        /\ UNCHANGED callerVars
  \/ \E p \in Main : ToolsEnum(p)
        /\ UNCHANGED callerVars
  \/ \E p \in Main : ToolsReturn(p)
        /\ UNCHANGED callerVars
  \/ \E p \in Main : SetTools(p)
        /\ UNCHANGED callerVars
  \/ \E p \in Main : \E n \in CallNames : ExecFind(p, n, NoArguments)
        /\ UNCHANGED callerVars
  \/ \E p \in Main : ExecRLock(p)
        /\ UNCHANGED callerVars
  \/ \E p \in Main : ExecLookup(p)
        /\ UNCHANGED callerVars
  \/ \E p \in Main : ExecCall(p)
        /\ UNCHANGED callerVars
  \/ \E s \in Sessions : Disconnect(s)
        /\ UNCHANGED callerVars

Spec == Init /\ [][Next]_vars

\* Concurrent callers on one client, every provider process staying up.
ConcDescriptors == {"dA", "dE"}

NextConc ==
  \/ \E p \in Procs, d \in ConcDescriptors :
        nSess < MaxConcConnects /\ ConnectSpawn(p, d)
        /\ UNCHANGED callerVars
  \/ \E p \in Procs : ConnectLock(p)
        /\ UNCHANGED callerVars
  \/ \E p \in Procs : ConnectCheck(p)
        /\ UNCHANGED callerVars
  \/ \E p \in Procs : ConnectStore(p)
        /\ UNCHANGED callerVars
  \/ \E p \in Procs : ToolsRLock(p)
        /\ UNCHANGED callerVars
  \/ \E p \in Procs : ToolsLen(p)
        /\ UNCHANGED callerVars
  \/ \E p \in Procs : ToolsEnum(p)
        /\ UNCHANGED callerVars
  \/ \E p \in Procs : ToolsReturn(p)
        /\ UNCHANGED callerVars
  \/ \E p \in Procs : SetTools(p)
        /\ UNCHANGED callerVars
  \/ \E p \in Procs : \E n \in CallNames : ExecFind(p, n, NoArguments)
        /\ UNCHANGED callerVars
  \/ \E p \in Procs : ExecRLock(p)
        /\ UNCHANGED callerVars
  \/ \E p \in Procs : ExecLookup(p)
        /\ UNCHANGED callerVars
  \/ \E p \in Procs : ExecCall(p)
        /\ UNCHANGED callerVars

SpecConc == Init /\ [][NextConc]_vars

\* The tool calls one response handed to HandleToolCallsInResponse carries.
CallLists ==
  { <<>> } \cup { <<n>> : n \in CallNames }
           \cup { <<n, m>> : n \in CallNames, m \in CallNames }

\* The ollama adapter over the registry, one caller: Connect, Tools, SetTools,
\* Chat and HandleToolCallsInResponse, every call made between two others.
NextAdapter ==
  \/ \E p \in Main, d \in AdapterDescriptors :
        /\ ~InHandle(p)
        /\ nSess < MaxConcConnects
        /\ ConnectSpawn(p, d)
        /\ ForgetChat(p)
        /\ ForgetHandle(p)
        /\ UNCHANGED <<batchLoc, mainLoc, convLoc, envLoc>>
  \/ \E p \in Main : ConnectLock(p) /\ UNCHANGED callerVars
  \/ \E p \in Main : ConnectCheck(p) /\ UNCHANGED callerVars
  \/ \E p \in Main : ConnectStore(p) /\ UNCHANGED callerVars
  \/ \E p \in Main :
        /\ ~InHandle(p)
        /\ ToolsRLock(p)
        /\ ForgetChat(p)
        /\ ForgetHandle(p)
        /\ UNCHANGED <<batchLoc, mainLoc, convLoc, envLoc>>
  \/ \E p \in Main : ToolsLen(p) /\ UNCHANGED callerVars
  \/ \E p \in Main : ToolsEnum(p) /\ UNCHANGED callerVars
  \/ \E p \in Main : ToolsReturn(p) /\ UNCHANGED callerVars
  \/ \E p \in Main : ~InHandle(p) /\ SetTools(p) /\ UNCHANGED callerVars
  \/ \E p \in Main : ~InHandle(p) /\ ChatSend(p) /\ UNCHANGED <<mainLoc, convLoc, envLoc>>
  \/ \E p \in Main, c \in FragmentContents, tc \in FragmentCalls :
        ChatFragment(p, c, tc) /\ UNCHANGED <<mainLoc, convLoc, envLoc>>
  \/ \E p \in Main : ChatReturn(p) /\ UNCHANGED <<mainLoc, convLoc, envLoc>>
  \/ \E p \in Main, tc \in CallLists : HandleStart(p, tc) /\ UNCHANGED <<mainLoc, convLoc, envLoc>>
  \/ \E p \in Main : HandleExec(p) /\ UNCHANGED <<mainLoc, convLoc, envLoc>>
  \/ \E p \in Main : ExecRLock(p) /\ UNCHANGED callerVars
  \/ \E p \in Main : ExecLookup(p) /\ UNCHANGED callerVars
  \/ \E p \in Main : ExecCall(p) /\ UNCHANGED callerVars
  \/ \E p \in Main : HandleCollect(p) /\ UNCHANGED <<mainLoc, convLoc, envLoc>>

SpecAdapter == Init /\ [][NextAdapter]_vars

\* ExecuteToolCall on its own over the registry, one caller: the adapter
\* holds a Tools list, or one to which the caller added a tool of its own,
\* and every call carries one of the argument mappings.
NextExec ==
  \/ \E p \in Main, d \in AdapterDescriptors :
        /\ nSess < MaxConcConnects
        /\ ConnectSpawn(p, d)
        /\ UNCHANGED callerVars
  \/ \E p \in Main : ConnectLock(p) /\ UNCHANGED callerVars
  \/ \E p \in Main : ConnectCheck(p) /\ UNCHANGED callerVars
  \/ \E p \in Main : ConnectStore(p) /\ UNCHANGED callerVars
  \/ \E p \in Main : ToolsRLock(p) /\ UNCHANGED callerVars
  \/ \E p \in Main : ToolsLen(p) /\ UNCHANGED callerVars
  \/ \E p \in Main : ToolsEnum(p) /\ UNCHANGED callerVars
  \/ \E p \in Main : ToolsReturn(p) /\ UNCHANGED callerVars
  \/ \E p \in Main : SetTools(p) /\ UNCHANGED callerVars
  \/ \E p \in Main : SetToolsLocal(p) /\ UNCHANGED callerVars
  \/ \E p \in Main, n \in CallNames, a \in Arguments :
        ExecFind(p, n, a) /\ UNCHANGED callerVars
  \/ \E p \in Main : ExecRLock(p) /\ UNCHANGED callerVars
  \/ \E p \in Main : ExecLookup(p) /\ UNCHANGED callerVars
  \/ \E p \in Main : ExecCall(p) /\ UNCHANGED callerVars
  \/ \E s \in Sessions : Disconnect(s) /\ UNCHANGED callerVars

SpecExec == Init /\ [][NextExec]_vars

\* The descriptors of the runs of Tools: two providers whose schemas all
\* convert and one with a schema that does not.
ListDescriptors == {"sA", "sB", "sBad"}

\* Connect and Tools on one client, one caller.
NextList ==
  \/ \E p \in Main, d \in ListDescriptors :
        nSess < MaxConcConnects /\ ConnectSpawn(p, d)
        /\ UNCHANGED callerVars
  \/ \E p \in Main : ConnectLock(p) /\ UNCHANGED callerVars
  \/ \E p \in Main : ConnectCheck(p) /\ UNCHANGED callerVars
  \/ \E p \in Main : ConnectStore(p) /\ UNCHANGED callerVars
  \/ \E p \in Main : ToolsRLock(p) /\ UNCHANGED callerVars
  \/ \E p \in Main : ToolsLen(p) /\ UNCHANGED callerVars
  \/ \E p \in Main : ToolsEnum(p) /\ UNCHANGED callerVars
  \/ \E p \in Main : ToolsReturn(p) /\ UNCHANGED callerVars

SpecList == Init /\ [][NextList]_vars

\* The lists of configs a configuration file gives.
BatchConfigs ==
  UNION { [1..n -> AdapterDescriptors] : n \in 0..MaxConfigs }

\* One of the entry points is started.
InitMain ==
  /\ InitClients
  /\ entry \in Entries
  /\ mainPc = "start"
  /\ NoConversion
  /\ NoEnv

\* An entry point from its start to its end.
NextMain ==
  \/ MainStart /\ UNCHANGED <<convLoc, envLoc>>
  \/ \E cfgs \in BatchConfigs : MainConnect(cfgs) /\ UNCHANGED <<convLoc, envLoc>>
  \/ \E p \in Main : BatchConnect(p) /\ UNCHANGED <<mainLoc, convLoc, envLoc>>
  \/ \E p \in Main : ConnectLock(p) /\ UNCHANGED callerVars
  \/ \E p \in Main : ConnectCheck(p) /\ UNCHANGED callerVars
  \/ \E p \in Main : ConnectStore(p) /\ UNCHANGED callerVars
  \/ \E p \in Main : BatchCheck(p) /\ UNCHANGED <<mainLoc, convLoc, envLoc>>
  \/ \E p \in Main : BatchReturn(p) /\ UNCHANGED <<mainLoc, convLoc, envLoc>>
  \/ MainConnected /\ UNCHANGED <<convLoc, envLoc>>
  \/ MainTools /\ UNCHANGED <<convLoc, envLoc>>
  \/ \E p \in Main : ToolsLen(p) /\ UNCHANGED callerVars
  \/ \E p \in Main : ToolsEnum(p) /\ UNCHANGED callerVars
  \/ \E p \in Main : ToolsReturn(p) /\ UNCHANGED callerVars
  \/ MainListed /\ UNCHANGED <<convLoc, envLoc>>
  \/ MainNewClient /\ UNCHANGED <<convLoc, envLoc>>
  \/ MainSetTools /\ UNCHANGED <<convLoc, envLoc>>
  \/ MainAsk /\ UNCHANGED <<convLoc, envLoc>>
  \/ \E p \in Main, c \in FragmentContents, tc \in FragmentCalls :
        ChatFragment(p, c, tc) /\ UNCHANGED <<mainLoc, convLoc, envLoc>>
  \/ \E p \in Main : ChatReturn(p) /\ UNCHANGED <<mainLoc, convLoc, envLoc>>
  \/ MainAnswered /\ UNCHANGED <<convLoc, envLoc>>
  \/ MainHandle /\ UNCHANGED <<convLoc, envLoc>>
  \/ \E p \in Main : HandleExec(p) /\ UNCHANGED <<mainLoc, convLoc, envLoc>>
  \/ \E p \in Main : ExecRLock(p) /\ UNCHANGED callerVars
  \/ \E p \in Main : ExecLookup(p) /\ UNCHANGED callerVars
  \/ \E p \in Main : ExecCall(p) /\ UNCHANGED callerVars
  \/ \E p \in Main : HandleCollect(p) /\ UNCHANGED <<mainLoc, convLoc, envLoc>>
  \/ MainDone /\ UNCHANGED <<convLoc, envLoc>>

SpecMain == InitMain /\ [][NextMain]_vars

\* A provider's input schema is about to be converted.
InitConv ==
  /\ InitClients
  /\ entry = "none"
  /\ mainPc = "off"
  /\ convPc = "provider"
  /\ schema \in ProviderSchemas
  /\ common = <<>>
  /\ back = <<>>
  /\ NoEnv

\* The schema is converted into the common shape and back.
NextConv ==
  \/ ConvertToCommon
  \/ ConvertBack

SpecConv == InitConv /\ [][NextConv]_vars

\* The configs of a file are turned into commands, one after another, by one
\* process.
InitEnv ==
  /\ InitClients
  /\ entry = "none"
  /\ mainPc = "off"
  /\ NoConversion
  /\ environ \in ParentEnvs
  /\ environ0 = environ
  /\ built = <<>>
  /\ cmds = [c \in EnvConfigs |-> NoCmd]

\* config.CreateCommand(ctx): applyEnvironment, then command and arguments
\* are expanded and the environment of the command is built.
CreateCommand(c) ==
  /\ Len(built) < MaxBuilds
  /\ \E order \in KeyOrders(Environment(c)) :
        /\ environ' = applyEnvironment(environ, c, order)
        /\ cmds' = [cmds EXCEPT ![c] =
              [command |-> expandEnvironmentVariables(Command(c), environ'),
               args |-> [i \in 1..Len(Args(c)) |->
                           expandEnvironmentVariables(Args(c)[i], environ')],
               env |-> CommandEnv(environ', c)]]
  /\ built' = Append(built, c)
  /\ UNCHANGED environ0
  /\ UNCHANGED <<regVars, lockVars, sessVars, tools, pc, connLoc, toolsLoc,
                 execLoc, result, histVars, chatLoc, handleLoc, batchLoc,
                 mainLoc, convLoc>>

NextEnv == \E c \in EnvConfigs : CreateCommand(c)

SpecEnv == InitEnv /\ [][NextEnv]_vars

\* ------------------------------------------------------------------ claims

\* The position of the first ":" of a string, 0 if it has none.
FirstColon(str) ==
  IF \E i \in 1..Len(str) : str[i] = ":"
  THEN CHOOSE i \in 1..Len(str) :
         /\ str[i] = ":"
         /\ \A j \in 1..(i - 1) : str[j] # ":"
  ELSE 0

\* The part of a display name before its first ":".
PrefixBeforeColon(str) ==
  IF FirstColon(str) = 0 THEN str ELSE SubSeq(str, 1, FirstColon(str) - 1)

\* The goroutine's Connect is in its critical section (writes the maps).
InWrite(p) == pc[p] \in {"conn_check", "conn_store"}

\* The goroutine's Tools or Execute is reading the maps.
InRead(p) == pc[p] \in {"tools_len", "tools_enum", "exec_lookup"}

\* C1: a Connect whose resolved id is already registered returns the duplicate
\* error, closes the session it had just created, and leaves both maps, and the
\* session registered under that id, exactly as they were.
C1_DuplicateRejected ==
  [][\A p \in Procs :
       (pc[p] = "conn_check" /\ pc'[p] # "conn_check"
          /\ rid'[p] \in DOMAIN servers)
       => /\ result'[p] = ErrDuplicate
          /\ sessState'[ss[p]] = "closed"
          /\ servers' = servers
          /\ serverIDs' = serverIDs
          /\ servers[rid'[p]] # ss[p]
          /\ sessState'[servers[rid'[p]]] = sessState[servers[rid'[p]]]]_vars

\* C1 witness: a Connect has returned the duplicate error, its session is
\* closed, and another, open session is the one registered under the id.
C1_Witness ==
  \E p \in Procs :
    /\ pc[p] = "idle"
    /\ result[p] = ErrDuplicate
    /\ sessState[ss[p]] = "closed"
    /\ rid[p] \in DOMAIN servers
    /\ servers[rid[p]] # ss[p]
    /\ sessState[servers[rid[p]]] = "open"

\* C2: the registry has as many entries as Connect calls returned nil; a
\* Connect that failed in spawn or handshake made no session (so no entry, and
\* no second attempt); a Connect fails as a duplicate only when its id clashes
\* with a registered one, so with pairwise distinct ids every handshake that
\* succeeds is registered.
C2_SizeEqualsSuccesses ==
  /\ Cardinality(DOMAIN servers) = nOk
  /\ nOk = Cardinality({s \in Sessions : sessOutcome[s] = "ok"})
  /\ \A p \in Procs : result[p] = ErrConnect => ss[p] = NoSession /\ pc[p] = "idle"
  /\ \A s \in Sessions :
       sessOutcome[s] = "dup" =>
         \E s2 \in Sessions \ {s} : sessOutcome[s2] = "ok" /\ sessId[s2] = sessId[s]

\* C2 witness: two Connect calls succeeded and the last one failed in spawn or
\* handshake.
C2_Witness ==
  /\ nOk = 2
  /\ Cardinality(DOMAIN servers) = 2
  /\ \E p \in Procs : result[p] = ErrConnect

\* C3: the display names of the tools one Tools call returns are pairwise
\* distinct.
C3_DisplayNamesDistinct ==
  \A p \in Procs :
    \A i, j \in 1..Len(listed[p]) :
      i # j => listed[p][i].name # listed[p][j].name

\* C4: a tool executed by its display name is called on the connection whose
\* id is the part of the display name before the first ":".
C4_RoutesToPrefix ==
  \A p \in Procs :
    invoked[p] # <<>> =>
      serverIDs[invoked[p][1]] = PrefixBeforeColon(tgt[p].name)

\* C5: an Execute whose tool refers to a connection that is closed or removed
\* when the registry is looked up fails with "server not found" and goes no
\* further (the provider is not called).
C5_StaleToolFails ==
  [][\A p \in Procs :
       (/\ pc[p] = "exec_lookup"
        /\ pc'[p] # "exec_lookup"
        /\ \/ tgt[p].serverID \notin DOMAIN servers
           \/ sessState[servers[tgt[p].serverID]] # "open")
       => (result'[p] = ErrServerNotFound /\ pc'[p] = "idle")]_vars

\* C6: a connection whose process has disconnected, or that was closed, is not
\* in the registry.
C6_RemovedOnDisconnect ==
  \A id \in DOMAIN servers : sessState[servers[id]] = "open"

\* C7: no goroutine reads the maps while another writes them, and no two
\* write them at once.
C7_NoReadDuringWrite ==
  \A p, q \in Procs :
    p # q => ~(InWrite(p) /\ (InRead(q) \/ InWrite(q)))

\* C7 witness: a Connect is in its critical section, writing the maps, while
\* an Execute of another goroutine waits at RLock to read them.
C7_Witness ==
  \E p, q \in Procs :
    /\ p # q
    /\ InWrite(p)
    /\ pc[q] = "exec_rlock"
    /\ ~CanRLock

\* Readers share the lock: a Tools and an Execute read the maps together.
ReadersTogether ==
  \E p, q \in Procs :
    /\ p # q
    /\ pc[p] = "tools_enum"
    /\ pc[q] = "exec_lookup"

\* C8: of the Connect calls that resolve to one id exactly one registers: the
\* session of every call that returned nil is still the one registered under
\* its id (never overwritten), every call that returned the duplicate error
\* has its session closed and unregistered and lost to a registered one, and
\* the registry holds only sessions of calls that returned nil.
C8_OneWinnerPerId ==
  /\ \A s \in Sessions :
       sessOutcome[s] = "ok" =>
         sessId[s] \in DOMAIN servers /\ servers[sessId[s]] = s
  /\ \A s \in Sessions :
       sessOutcome[s] = "dup" =>
         /\ sessState[s] = "closed"
         /\ s \notin Range(servers)
         /\ \E s2 \in Sessions \ {s} :
              sessOutcome[s2] = "ok" /\ sessId[s2] = sessId[s]
  /\ \A s \in Range(servers) :
       s \in Sessions /\ sessOutcome[s] \in {"ok", "pending"} /\ sessState[s] # "closed"
  /\ \A p \in Procs : pc[p] = "idle" /\ result[p] = OK /\ ss[p] # NoSession
                       => sessOutcome[ss[p]] = "ok"

\* C8 witness: two Connect calls to the same id overlapped: the one whose
\* session was created first returned the duplicate error, the session
\* created after it is the one registered.
C8_Witness ==
  \E p \in Procs :
    /\ pc[p] = "idle"
    /\ result[p] = ErrDuplicate
    /\ sessState[ss[p]] = "closed"
    /\ servers[rid[p]] > ss[p]

\* C9: a Tools call that finds the registry empty returns "no servers
\* connected", no tools, and has enumerated no session.
C9_EmptyRegistry ==
  [][\A p \in Procs :
       (pc[p] = "tools_len" /\ pc'[p] # "tools_len" /\ DOMAIN servers = {})
       => /\ result'[p] = ErrNoServers
          /\ pc'[p] = "idle"
          /\ listed'[p] = <<>>
          /\ contacted'[p] = {}
          /\ p \notin lockR']_vars

\* C9 witness: a Tools call on the empty registry has returned.
C9_Witness ==
  \E p \in Procs :
    /\ pc[p] = "idle"
    /\ result[p] = ErrNoServers
    /\ DOMAIN servers = {}
    /\ listed[p] = <<>>

\* C10: Tools returns "no tools found" (not the error of an empty registry)
\* exactly when the registry is not empty and every session enumerated zero
\* tools, and only after it has enumerated every registered session.
C10_NoTools ==
  /\ ErrNoTools # ErrNoServers
  /\ \A p \in Procs :
       /\ result[p] = ErrNoTools =>
            /\ DOMAIN servers # {}
            /\ contacted[p] = Range(servers)
            /\ listed[p] = <<>>
            /\ \A s \in contacted[p] : ProviderTools(sessDesc[s]) = <<>>
       /\ (/\ pc[p] = "idle"
           /\ contacted[p] # {}
           /\ contacted[p] = Range(servers)
           /\ result[p] # ErrListTools
           /\ \A s \in contacted[p] : ProviderTools(sessDesc[s]) = <<>>)
          => result[p] = ErrNoTools

\* C10 witness: Tools has returned "no tools found" after enumerating two
\* sessions.
C10_Witness ==
  \E p \in Procs :
    /\ result[p] = ErrNoTools
    /\ Cardinality(contacted[p]) = 2
    /\ contacted[p] = Range(servers)

\* An ExecuteToolCall of the goroutine has returned.
ExecDone(p) == pc[p] = "idle" /\ called[p] # <<>>

\* The name has no ":" or the part before its first ":" is the id of no
\* registered connection.
Unroutable(n) ==
  \/ FirstColon(n) = 0
  \/ PrefixBeforeColon(n) \notin DOMAIN servers

\* C15: executing a display name that has no ":" or whose connection-id part
\* is not registered fails with the unknown-tool (or unknown-server) error and
\* calls no provider.
C15_UnroutableFails ==
  \A p \in Procs :
    (ExecDone(p) /\ Unroutable(called[p])) =>
      /\ result[p] \in {ErrToolNotFound, ErrServerNotFound}
      /\ invoked[p] = <<>>

\* C16: when the provider's CallTool gives no error but a result with the error
\* flag set, Execute returns no error, and what it returns differs from what it
\* returns for every result without the flag.
C16_FlagReachesCaller ==
  \A p \in Procs :
    (ExecDone(p) /\ callRes[p] # <<>> /\ callRes[p][1].isError) =>
      /\ result[p] = OK
      /\ \A r \in CallResults : ~r.isError => ExecuteReturn(r) # ret[p]

\* The names id:native of the registered connections and the native tools
\* their providers enumerate.
Catalog ==
  UNION { { serverIDs[s] \o <<":">> \o ProviderTools(sessDesc[s])[k] :
              k \in 1..Len(ProviderTools(sessDesc[s])) } :
          s \in Range(servers) }

\* The names of a list of tools.
NamesOf(ts) == { ts[i].name : i \in 1..Len(ts) }

\* C11: a Tools call whose enumerations all succeeded returns exactly the
\* names id:native of the registered connections and their native tools, one
\* tool for each, and an Execute that calls a provider calls the native tool n
\* of the registered connection id with id:n the name executed.
C11_ExactCatalog ==
  \A p \in Procs :
    /\ listed[p] # <<>> =>
         /\ NamesOf(listed[p]) = Catalog
         /\ \A s \in Range(servers) :
              \A k \in 1..Len(ProviderTools(sessDesc[s])) :
                Cardinality({ i \in 1..Len(listed[p]) :
                    /\ listed[p][i].serverID = serverIDs[s]
                    /\ listed[p][i].toolName = ProviderTools(sessDesc[s])[k] })
                  = 1
         /\ \A i \in 1..Len(listed[p]) :
              /\ listed[p][i].serverID \in DOMAIN servers
              /\ listed[p][i].name =
                   listed[p][i].serverID \o <<":">> \o listed[p][i].toolName
    /\ invoked[p] # <<>> =>
         /\ invoked[p][1] \in Range(servers)
         /\ called[p] = serverIDs[invoked[p][1]] \o <<":">> \o invoked[p][2]

\* C11 witness: with A (ping) and B (ping, status) registered the adapter holds
\* exactly A:ping, B:ping, B:status from a Tools call, and the execution of
\* B:ping has called the native ping of B's session.
C11_Witness ==
  \E p \in Procs :
    /\ NamesOf(tools) = { <<"A", ":", "ping">>, <<"B", ":", "ping">>,
                          <<"B", ":", "status">> }
    /\ Len(tools) = 3
    /\ called[p] = <<"B", ":", "ping">>
    /\ <<"B">> \in DOMAIN servers
    /\ invoked[p] # <<>>
    /\ invoked[p][1] = servers[<<"B">>]
    /\ invoked[p][2] = <<"ping">>
    /\ result[p] = OK

\* HandleToolCallsInResponse of the goroutine has returned.
HandleDone(p) == hPhase[p] = "done"

\* C13: HandleToolCallsInResponse returns one message per tool call of the
\* response, the i-th being the result (or the failure) of the i-th call,
\* whatever succeeds or fails; with no tool call it returns no message and
\* executes no tool.
C13_OneMessagePerCall ==
  \A p \in Procs :
    HandleDone(p) =>
      /\ Len(msgs[p]) = Len(hCalls[p])
      /\ Len(outcomes[p]) = Len(hCalls[p])
      /\ \A i \in 1..Len(msgs[p]) :
           /\ outcomes[p][i].name = hCalls[p][i]
           /\ msgs[p][i].role = "tool"
           /\ outcomes[p][i].err = OK =>
                msgs[p][i].content = outcomes[p][i].ret
           /\ outcomes[p][i].err # OK =>
                /\ msgs[p][i].content # outcomes[p][i].ret
                /\ outcomes[p][i].err
                     = msgs[p][i].content[Len(msgs[p][i].content)]
      /\ hCalls[p] = <<>> =>
           /\ msgs[p] = <<>>
           /\ called[p] = <<>>
           /\ invoked[p] = <<>>

\* C13 witness: a response with two tool calls, the first failed and the
\* second succeeded with a result of its own, has been handled.
C13_Witness ==
  \E p \in Procs :
    /\ HandleDone(p)
    /\ Len(hCalls[p]) = 2
    /\ Len(msgs[p]) = 2
    /\ outcomes[p][1].err # OK
    /\ outcomes[p][2].err = OK
    /\ outcomes[p][2].ret = <<"a", "b">>

\* C14: a failed call (tool not found, server not found, provider error) does
\* not end HandleToolCallsInResponse: its message is a text that describes the
\* failure, every later call of the response is still executed, and the
\* function returns no error.
C14_NeverAborts ==
  \A p \in Procs :
    HandleDone(p) =>
      /\ result[p] = OK
      /\ \A i \in 1..Len(hCalls[p]) :
           /\ i <= Len(outcomes[p])
           /\ i <= Len(msgs[p])
           /\ outcomes[p][i].name = hCalls[p][i]
           /\ outcomes[p][i].err
                \in {OK, ErrToolNotFound, ErrServerNotFound, ErrCallTool}
           /\ outcomes[p][i].err # OK =>
                /\ msgs[p][i].content[1] = "Tool execution failed: "
                /\ msgs[p][i].content[Len(msgs[p][i].content)]
                     = outcomes[p][i].err

\* C14 witness: the first call failed in the provider and the second, to a
\* name the adapter does not hold, was still executed and failed too.
C14_Witness ==
  \E p \in Procs :
    /\ HandleDone(p)
    /\ Len(outcomes[p]) = 2
    /\ outcomes[p][1].err = ErrCallTool
    /\ outcomes[p][1].invoked # <<>>
    /\ outcomes[p][2].err = ErrToolNotFound
    /\ result[p] = OK

\* C18 as stated: the request of a Chat carries the names of the catalog of
\* the connections registered when it is sent.
C18_ChatCarriesCatalog ==
  \A p \in Procs :
    pc[p] = "chat_recv" => { reqTools[p][i] : i \in 1..Len(reqTools[p]) } = Catalog

\* C18, amended: the request of a Chat carries the tools last given to
\* SetTools, in their order, whatever the registry holds, and has no tools when
\* that list is empty.
C18_ChatCarriesSetTools ==
  \A p \in Procs :
    pc[p] = "chat_recv" =>
      /\ Len(reqTools[p]) = Len(tools)
      /\ \A i \in 1..Len(tools) : reqTools[p][i] = tools[i].name
      /\ (reqTools[p] = <<>>) <=> (Len(tools) = 0)

\* C18 witness: a Chat request is out with the tools of A alone while B has
\* been registered since they were set.
C18_Witness ==
  \E p \in Procs :
    /\ pc[p] = "chat_recv"
    /\ reqTools[p] = << <<"A", ":", "ping">> >>
    /\ DOMAIN servers = { <<"A">>, <<"B">> }

\* The content, and the tool calls, of the responses rs in their order.
RECURSIVE AllContent(_)
AllContent(rs) ==
  IF rs = <<>> THEN <<>> ELSE rs[1].content \o AllContent(Tail(rs))

RECURSIVE AllCalls(_)
AllCalls(rs) ==
  IF rs = <<>> THEN <<>> ELSE rs[1].calls \o AllCalls(Tail(rs))

\* A Chat of the goroutine has returned a response.
ChatDone(p) == pc[p] = "idle" /\ result[p] = OK /\ arrived[p] # <<>>

\* C19: Chat executes no tool, and the response it returns has the content of
\* all the responses that arrived, in order, and every tool call any of them
\* carried.
C19_ChatReturnsAll ==
  \A p \in Procs :
    ChatDone(p) =>
      /\ invoked[p] = <<>>
      /\ called[p] = <<>>
      /\ respContent[p] = AllContent(arrived[p])
      /\ respCalls[p] = AllCalls(arrived[p])

\* ConnectFromConfigs of the goroutine has returned and its caller has not
\* gone on yet.
BatchDone(p) == bPhase[p] = "done" /\ mainPc = "connecting"

\* C12: ConnectFromConfigs connects the configs in the order of the list; the
\* first Connect that fails ends it with that failure and no later config is
\* attempted; it returns nil only when every config was connected.
C12_FirstFailureStops ==
  \A p \in Procs :
    /\ Len(attempted[p]) <= Len(bConfigs[p])
    /\ attempted[p] = SubSeq(bConfigs[p], 1, Len(attempted[p]))
    /\ BatchDone(p) =>
         /\ bErr[p] \in {OK, ErrBatch}
         /\ bErr[p] = ErrBatch =>
              /\ result[p] \in {ErrConnect, ErrDuplicate}
              /\ Len(attempted[p]) = bIdx[p]
              /\ nOk = Len(attempted[p]) - 1
         /\ bErr[p] = OK =>
              /\ attempted[p] = bConfigs[p]
              /\ nOk = Len(bConfigs[p])
              /\ Cardinality(DOMAIN servers) = Len(bConfigs[p])

\* C12 witness: of two configs the first failed to connect, the error is
\* returned and the second was not attempted.
C12_Witness ==
  \E p \in Procs :
    /\ BatchDone(p)
    /\ Len(bConfigs[p]) = 2
    /\ attempted[p] = <<bConfigs[p][1]>>
    /\ bErr[p] = ErrBatch
    /\ nOk = 0

\* C20 as stated: once ConnectFromConfigs has returned an error main ends and
\* has neither called Tools nor sent a chat request.
C20_ConnectErrorFatal ==
  bErr[MainProc] = ErrBatch =>
    /\ mainPc \in {"connecting", "exit"}
    /\ ~didList
    /\ ~didChat

\* C20, amended: in ttobot an error of ConnectFromConfigs ends main before any
\* Tools call or chat request; the example client goes on to Tools after it
\* and ends only on a later failure.
C20_ConnectErrorFatalInTtobot ==
  /\ (entry = "ttobot" /\ bErr[MainProc] = ErrBatch) =>
       /\ mainPc \in {"connecting", "exit"}
       /\ ~didList
       /\ ~didChat
  /\ (entry = "client" /\ mainPc = "exit") => didList

\* C20 witness: ttobot has ended after the error of ConnectFromConfigs.
C20_Witness ==
  /\ entry = "ttobot"
  /\ bErr[MainProc] = ErrBatch
  /\ mainPc = "exit"

\* The example client has sent a chat request after the error of
\* ConnectFromConfigs.
ClientChatsAfterConnectError ==
  /\ entry = "client"
  /\ bErr[MainProc] = ErrBatch
  /\ didChat

\* The four facets of the schema j: its required names, and for each of its
\* properties the nested properties, the enum and the schema of the items.
Facets(j) ==
  [required |-> Get(j, "required", <<>>),
   nested |-> [n \in DOMAIN Get(j, "properties", <<>>) |->
                 Get(j["properties"][n], "properties", <<>>)],
   enum |-> [n \in DOMAIN Get(j, "properties", <<>>) |->
               Get(j["properties"][n], "enum", <<>>)],
   items |-> [n \in DOMAIN Get(j, "properties", <<>>) |->
                Get(j["properties"][n], "items", <<>>)],
   topItems |-> Get(j, "items", <<>>)]

\* C17 as stated: a schema converted into the common shape and back has the
\* required names, nested properties, enums and item schemas it had.
C17_RoundTripExact ==
  convPc = "back" => Facets(back) = Facets(schema)

\* C17, amended: the round trip keeps the required names, the names of the
\* properties with their type and description, their enums and the schemas
\* of the items whole; the properties nested in a property are dropped.
C17_RoundTripKeepsDeclared ==
  convPc = "back" =>
    /\ Facets(back).required = Facets(schema).required
    /\ Facets(back).enum = Facets(schema).enum
    /\ Facets(back).items = Facets(schema).items
    /\ Facets(back).topItems = Facets(schema).topItems
    /\ Get(back, "defs", <<>>) = Get(schema, "defs", <<>>)
    /\ \A n \in DOMAIN Get(schema, "properties", <<>>) :
         /\ back["properties"][n]["type"] = schema["properties"][n]["type"]
         /\ Get(back["properties"][n], "description", "")
              = Get(schema["properties"][n], "description", "")
         /\ "properties" \notin DOMAIN back["properties"][n]
         /\ "required" \notin DOMAIN back["properties"][n]

\* C17 witness: a schema with a required name and a property that has an
\* enum, items with properties of their own and nested properties has made the
\* round trip.
C17_Witness ==
  /\ convPc = "back"
  /\ Get(schema, "required", <<>>) = <<"a">>
  /\ "properties" \in DOMAIN schema
  /\ DOMAIN schema["properties"]["a"] = DOMAIN FullProperty
  /\ back["properties"]["a"]["enum"] = <<"x", "y">>
  /\ back["properties"]["a"]["items"] = ItemSchema

\* C21: Tools ends at the first enumeration error with that error and no tool:
\* what it had collected is not returned, and no further connection is
\* enumerated after the error.
C21_FirstListErrorStops ==
  [][\A p \in Procs :
       /\ result'[p] = ErrListTools =>
            /\ pc'[p] = "idle"
            /\ listed'[p] = <<>>
            /\ acc'[p] = <<>>
            /\ todo'[p] = {}
       /\ (result[p] = ErrListTools /\ result'[p] = ErrListTools) =>
            contacted'[p] = contacted[p]]_vars

\* C21 witness: of three registered connections Tools enumerated the tools of
\* one, failed to enumerate the next, and returned the error without visiting
\* the third.
C21_Witness ==
  \E p \in Procs :
    /\ result[p] = ErrListTools
    /\ Cardinality(Range(servers)) = 3
    /\ Cardinality(contacted[p]) = 2
    /\ \A s \in contacted[p] : ProviderTools(sessDesc[s]) # <<>>
    /\ listed[p] = <<>>

\* C22: when the schema of a native tool does not convert, Tools returns no
\* tool and the conversion error that names that tool by its native name,
\* whatever the other tools are; and Tools returns tools only when it met no
\* such schema.
C22_ConversionErrorNamesTool ==
  \A p \in Procs :
    /\ result[p] = ErrConvert =>
         /\ pc[p] = "idle"
         /\ listed[p] = <<>>
         /\ errTool[p] = <<"bad">>
         /\ \E s \in contacted[p] : sessDesc[s] = "sBad"
    /\ (pc[p] = "idle" /\ \E s \in contacted[p] : sessDesc[s] = "sBad") =>
         /\ result[p] \in {ErrConvert, ErrListTools}
         /\ listed[p] = <<>>
    /\ result[p] # ErrConvert => errTool[p] = <<>>

\* C22 witness: Tools had collected the tools of B when the tool bad of
\* another connection did not convert, and returned the error naming bad.
C22_Witness ==
  \E p \in Procs :
    /\ result[p] = ErrConvert
    /\ errTool[p] = <<"bad">>
    /\ Cardinality(contacted[p]) = 2
    /\ \E s \in contacted[p] : sessDesc[s] = "sB"
    /\ listed[p] = <<>>

\* C23: a connection whose provider gives an id is registered under that id
\* as it is; one whose provider gives none gets a generated id that no
\* registered connection has, so its Connect never ends as a duplicate.
C23_GeneratedIdsFresh ==
  \A s \in Sessions :
    /\ (sessOutcome[s] = "ok" /\ ProviderID(sessDesc[s]) # <<>>) =>
         /\ serverIDs[s] = ProviderID(sessDesc[s])
         /\ servers[ProviderID(sessDesc[s])] = s
    /\ ProviderID(sessDesc[s]) = <<>> => sessOutcome[s] # "dup"

\* The position in the adapter's list of the first tool named n (0: none).
FirstNamed(n) ==
  IF \E k \in 1..Len(tools) : tools[k].name = n
  THEN CHOOSE k \in 1..Len(tools) :
          /\ tools[k].name = n
          /\ \A j \in 1..(k - 1) : tools[j].name # n
  ELSE 0

\* C24: HandleToolCallsInResponse never lists tools: while it runs and when it
\* has returned, the caller is in no Tools call and has contacted no provider
\* for a listing; every call of it that reached a provider reached the
\* connection registered under the id, and asked for the native name, that the
\* listing stored in the adapter's tool of the called name.
C24_BoundAtListing ==
  \A p \in Procs :
    hPhase[p] \in {"loop", "wait", "done"} =>
      /\ pc[p] \notin {"tools_len", "tools_enum"}
      /\ contacted[p] = {}
      /\ listed[p] = <<>>
      /\ \A i \in 1..Len(outcomes[p]) :
            outcomes[p][i].invoked # <<>> =>
              /\ FirstNamed(outcomes[p][i].name) # 0
              /\ tools[FirstNamed(outcomes[p][i].name)].serverID \in DOMAIN servers
              /\ outcomes[p][i].invoked[1] =
                   servers[tools[FirstNamed(outcomes[p][i].name)].serverID]
              /\ outcomes[p][i].invoked[2] =
                   tools[FirstNamed(outcomes[p][i].name)].toolName
              /\ outcomes[p][i].invoked[2] \in
                   Range(ProviderTools(sessDesc[outcomes[p][i].invoked[1]]))

\* A call of a response reached the provider of the connection its tool was
\* listed from, while a connection registered after that listing has no tool
\* in the adapter.
C24_Witness ==
  \E p \in Procs :
    /\ HandleDone(p)
    /\ Len(outcomes[p]) = 2
    /\ outcomes[p][2].name = <<"A", ":", "ping">>
    /\ outcomes[p][2].invoked # <<>>
    /\ outcomes[p][2].invoked[2] = <<"ping">>
    /\ \E id \in DOMAIN servers :
          \A k \in 1..Len(tools) : tools[k].serverID # id

\* C25: one Execute calls the provider at most once, on the connection
\* registered under the executor's id, with the native name and with the
\* arguments of the caller; when that id is not registered it fails with the
\* unknown-server error and calls no provider; when the provider call fails
\* the error carries the native name, nothing is returned beside it and the
\* call is not made again.
C25_OneProviderCall ==
  \A p \in Procs :
    /\ nCalls[p] <= 1
    /\ (nCalls[p] = 1) <=> (invoked[p] # <<>>)
    /\ invoked[p] # <<>> =>
          /\ tgt[p].serverID \in DOMAIN servers
          /\ invoked[p] = <<servers[tgt[p].serverID], tgt[p].toolName, cargs[p]>>
          /\ FindTool(tools, called[p]) # 0
          /\ tgt[p] = tools[FindTool(tools, called[p])]
    /\ (called[p] # <<>> /\ tgt[p] # NoTool /\ tgt[p].bound
          /\ tgt[p].serverID \notin DOMAIN servers) =>
          /\ invoked[p] = <<>>
          /\ pc[p] \in {"exec_rlock", "exec_lookup"} \/ result[p] = ErrServerNotFound
    /\ result[p] = ErrServerNotFound => invoked[p] = <<>> /\ ret[p] = <<>>
    /\ result[p] = ErrCallTool =>
          /\ pc[p] = "idle"
          /\ nCalls[p] = 1
          /\ errArg[p] = tgt[p].toolName
          /\ ret[p] = <<>>
          /\ callRes[p] = <<>>

\* An Execute of B:status with arguments called the provider once, after its
\* process had gone, and returned the call error with the name status.
C25_Witness ==
  \E p \in Procs :
    /\ ExecDone(p)
    /\ called[p] = <<"B", ":", "status">>
    /\ cargs[p] # NoArguments
    /\ result[p] = ErrCallTool
    /\ errArg[p] = <<"status">>
    /\ nCalls[p] = 1
    /\ invoked[p][3] = cargs[p]
    /\ sessState[invoked[p][1]] = "dead"

\* What one fragment adds to the string: its text, its JSON, or nothing when
\* it does not serialize.
Written(f) ==
  CASE f.kind = "text"   -> f.text
    [] f.kind = "other"  -> <<"{image}">>
    [] f.kind = "broken" -> <<>>

\* What the first k fragments of c add, in their order.
RECURSIVE Joined(_, _)
Joined(c, k) == IF k = 0 THEN <<>> ELSE Joined(c, k - 1) \o Written(c[k])

\* C26: after a provider call that gave no error, Execute returns what the
\* fragments of the result add, in their order: the text of a text fragment,
\* the JSON of another fragment, nothing for one that does not serialize; it
\* returns "Tool executed successfully" when, and only when, the result has no
\* content list (an empty list gives the empty string).
C26_ContentInOrder ==
  \A p \in Procs :
    callRes[p] # <<>> =>
      /\ result[p] = OK
      /\ callRes[p][1].isNil =>
            ret[p] = <<"Tool executed successfully">>
      /\ ~callRes[p][1].isNil =>
            /\ ret[p] = Joined(callRes[p][1].content, Len(callRes[p][1].content))
            /\ ret[p] # <<"Tool executed successfully">>
      /\ (~callRes[p][1].isNil /\ callRes[p][1].content = <<>>) => ret[p] = <<>>

\* An Execute whose result had a fragment that does not serialize before a
\* text fragment returned the text alone.
C26_Witness ==
  \E p \in Procs :
    /\ ExecDone(p)
    /\ result[p] = OK
    /\ callRes[p] # <<>>
    /\ Len(callRes[p][1].content) = 2
    /\ callRes[p][1].content[1].kind = "broken"
    /\ callRes[p][1].content[2].kind = "text"
    /\ ret[p] = <<"b">>

\* C27: Execute of a tool without an executor returns the no-executor error
\* with the name of the tool and the empty result: the call ends where it
\* found the tool, no executor is entered and no provider is called.
C27_NoExecutorFails ==
  \A p \in Procs :
    /\ (called[p] # <<>> /\ tgt[p] # NoTool /\ ~tgt[p].bound) =>
          /\ pc[p] = "idle"
          /\ result[p] = ErrNoExecutor
          /\ errArg[p] = called[p]
          /\ ret[p] = <<>>
          /\ srv[p] = NoSession
          /\ invoked[p] = <<>>
          /\ nCalls[p] = 0
    /\ result[p] = ErrNoExecutor => (tgt[p] # NoTool /\ ~tgt[p].bound)

\* The tool the caller added without an executor was executed, with
\* arguments, beside the tools of a registered connection.
C27_Witness ==
  \E p \in Procs :
    /\ ExecDone(p)
    /\ called[p] = <<"local">>
    /\ tgt[p] = LocalTool
    /\ cargs[p] # NoArguments
    /\ result[p] = ErrNoExecutor
    /\ errArg[p] = <<"local">>
    /\ Len(tools) > 1
    /\ DOMAIN servers # {}

\* C28: the two maps of the registry are inverse to each other: a session is
\* stored under an id exactly when that id is recorded for the session, so
\* the maps have the same size and no session is stored under two ids; the id
\* Tools reads for a session it enumerates is the key the session is stored
\* under.
C28_MapsInverse ==
  /\ \A id \in DOMAIN servers :
        /\ servers[id] \in DOMAIN serverIDs
        /\ serverIDs[servers[id]] = id
  /\ \A s \in DOMAIN serverIDs :
        /\ serverIDs[s] \in DOMAIN servers
        /\ servers[serverIDs[s]] = s
  /\ Cardinality(DOMAIN servers) = Cardinality(DOMAIN serverIDs)
  /\ \A p \in Procs : \A k \in 1..Len(acc[p]) :
        /\ acc[p][k].serverID \in DOMAIN servers
        /\ serverIDs[servers[acc[p][k].serverID]] = acc[p][k].serverID

\* Two sessions are registered, under a provider id and under a generated
\* one, and a Tools call has enumerated both and collected tools.
C28_Witness ==
  /\ Cardinality(DOMAIN servers) = 2
  /\ <<"A">> \in DOMAIN servers
  /\ \E p \in Procs :
        /\ contacted[p] = Range(servers)
        /\ acc[p] # <<>>
        /\ acc[p][1].serverID = <<"A">>

\* The configs ConnectFromConfigs connected before the one that failed.
Earlier(p) == SubSeq(attempted[p], 1, Len(attempted[p]) - 1)

\* C29: once ConnectFromConfigs has returned the error of a config, the
\* sessions of the configs before it are registered under their ids and open,
\* and the registry holds them and nothing else; the Tools call the example
\* client makes next enumerates them and, when their listings succeed,
\* returns exactly their tools.
C29_NoRollback ==
  \A p \in Procs :
    (bPhase[p] = "done" /\ bErr[p] = ErrBatch) =>
      /\ \A i \in 1..Len(Earlier(p)) :
            /\ ProviderID(Earlier(p)[i]) \in DOMAIN servers
            /\ sessDesc[servers[ProviderID(Earlier(p)[i])]] = Earlier(p)[i]
            /\ sessState[servers[ProviderID(Earlier(p)[i])]] = "open"
      /\ DOMAIN servers = {ProviderID(Earlier(p)[i]) : i \in 1..Len(Earlier(p))}
      /\ Cardinality(DOMAIN servers) = Len(Earlier(p))
      /\ (mainPc = "listing" /\ pc[p] = "idle" /\ Earlier(p) # <<>>) =>
            /\ result[p] \in {OK, ErrListTools}
            /\ contacted[p] # {}
            /\ contacted[p] \subseteq Range(servers)
            /\ result[p] = OK =>
                  /\ contacted[p] = Range(servers)
                  /\ NamesOf(listed[p]) = Catalog
                  /\ listed[p] # <<>>

\* The second of two configs failed; the example client then listed the tools
\* of the session of the first.
C29_Witness ==
  \E p \in Procs :
    /\ entry = "client"
    /\ bPhase[p] = "done"
    /\ bErr[p] = ErrBatch
    /\ Len(attempted[p]) = 2
    /\ mainPc = "listing"
    /\ pc[p] = "idle"
    /\ result[p] = OK
    /\ Cardinality(contacted[p]) = 1
    /\ Len(listed[p]) = 2

\* The command CreateCommand builds for a config without an environment of
\* its own when nothing was built before it.
BuiltFirst(c) ==
  [command |-> expandEnvironmentVariables(Command(c), environ0),
   args |-> [i \in 1..Len(Args(c)) |->
               expandEnvironmentVariables(Args(c)[i], environ0)],
   env |-> environ0]

\* C30: building the command of a config changes the environment of no other
\* config: the command built for a config without an environment of its own,
\* its expanded arguments and the environment of its child, are what they
\* would be had no other config been built before it.
C30_OverlayIsLocal ==
  \A c \in EnvConfigs :
    (cmds[c] # NoCmd /\ DOMAIN Environment(c) = {}) => cmds[c] = BuiltFirst(c)

\* C30, the parent's side: CreateCommand leaves the environment of the parent
\* process as it was.
ParentEnvironmentKept == environ = environ0

\* cB was built after cA: its argument is expanded with the TOKEN of cA, and
\* cA's TOKEN is in the environment of cB's child.
OverlayLeaks ==
  /\ built = <<"cA", "cB">>
  /\ environ0 = ("TOKEN" :> <<Lit("p")>>)
  /\ cmds["cB"].args = << <<Lit("--token="), Lit("a")>> >>
  /\ cmds["cB"].env["TOKEN"] = <<Lit("a")>>
  /\ environ["TOKEN"] = <<Lit("a")>>

====
